---- MODULE Spec2Model ----
(***************************************************************************)
(* A model of the wondercam streaming gateway (src/api).                   *)
(*                                                                         *)
(* Text is a sequence of one-character strings, so that strip(), len()     *)
(* and the per-character tests of the code are computed, not assumed.      *)
(* A fixed message of the code (an error text, the acknowledgment text)    *)
(* is a one-piece sequence holding the whole message.                      *)
(***************************************************************************)
EXTENDS Integers, Sequences, FiniteSets, TLC

VARIABLES
    call,             \* a function applied on its own: its name, arguments and outcome
    handler,          \* an AuthenticationHandler called on its own: its fields
    now,              \* datetime.utcnow(), in minutes
    callers,          \* the coroutines calling the handler: position and what they saw
    running,          \* the coroutine the event loop thread is running, 0 if none
    authLog,          \* history of the handler: loads and failed refreshes
    entry,            \* which generator serves the request
    pc,               \* the generator's position
    request,          \* the V2ChatRequest (apply_refined_prompt mutates it)
    origRequest,      \* the request as received (history variable)
    analysisEnabled,  \* settings.prompt_analysis_enabled
    credSource,       \* what the credential source yields when loaded
    translator,       \* the module-level translator global
    creds,            \* the module-level auth_handler: loaded flag, project id, token state
    analyzer,         \* prompt_analyzer._analyzer global
    task,             \* the analysis task of this request
    taskResult,       \* the AnalysisResult the task returned
    analysis_result,  \* the orchestrator's local analysis_result
    decidedBy,        \* how Step 3 ended: "none", "disabled", "result", "timeout"
    networkOutcome,   \* what the analysis call produced (kept once the call returned)
    lateArrived,      \* the analysis response arrived after the task was cancelled
    stop_processing,  \* request._stop_processing, as preprocess_request sets it
    vertexRequest,    \* the parts of the translated request, once translated
    upstream,         \* the upstream response: status and the chunks still to come
    posts,            \* number of upstream generation calls made
    out,              \* the frames yielded to the caller, in order
    calls,            \* call-order instrumentation: the collaborators touched so far
    exc               \* the exception being handled, "none" if none

harnessVars == <<call, handler, now, callers, running, authLog>>

vars == <<harnessVars, entry, stop_processing, pc, request, origRequest, analysisEnabled, credSource, translator,
          creds, analyzer, task, taskResult, analysis_result, decidedBy,
          networkOutcome, lateArrived, vertexRequest, upstream, posts, out, calls, exc>>

(***************************************************************************)
(* Bounds of the model.                                                    *)
(***************************************************************************)
MaxParts == 2
MaxChunks == 2
MaxPosts == 2
MaxLines == 2
MaxPath == 4
MaxCallers == 2
MaxTime == 3
TokenLifetime == 2

(***************************************************************************)
(* Text helpers.                                                           *)
(***************************************************************************)
\* Python's None for an Optional[str]; no text of the model equals it.
None == <<"None">>

\* A missing inlineData (Optional[Dict[str, str]] left at None).
NoData == [mimeType |-> None, data |-> None]

Whitespace == {" ", "\n", "\t"}

RECURSIVE LStrip(_)
LStrip(s) == IF s = <<>> THEN s
             ELSE IF Head(s) \in Whitespace THEN LStrip(Tail(s)) ELSE s

RECURSIVE RStrip(_)
RStrip(s) == IF s = <<>> THEN s
             ELSE IF s[Len(s)] \in Whitespace THEN RStrip(SubSeq(s, 1, Len(s) - 1)) ELSE s

\* str.strip()
Strip(s) == RStrip(LStrip(s))

\* Python truthiness of an Optional[str]
Truthy(s) == s # None /\ s # <<>>

\* str.startswith(prefix)
StartsWith(s, prefix) ==
    /\ Len(s) >= Len(prefix)
    /\ SubSeq(s, 1, Len(prefix)) = prefix

\* "sep".join(texts) for a sequence of texts
RECURSIVE Join(_, _)
Join(texts, sep) ==
    IF texts = <<>> THEN <<>>
    ELSE IF Len(texts) = 1 THEN texts[1]
    ELSE texts[1] \o sep \o Join(Tail(texts), sep)

\* "sub in s" for texts
RECURSIVE Contains(_, _)
Contains(s, sub) ==
    IF Len(s) < Len(sub) THEN FALSE
    ELSE IF StartsWith(s, sub) THEN TRUE
    ELSE Contains(Tail(s), sub)

\* str.split(sep): cur is the piece being read
RECURSIVE SplitAcc(_, _, _)
SplitAcc(s, sep, cur) ==
    IF s = <<>> THEN <<cur>>
    ELSE IF StartsWith(s, sep)
         THEN <<cur>> \o SplitAcc(SubSeq(s, Len(sep) + 1, Len(s)), sep, <<>>)
         ELSE SplitAcc(Tail(s), sep, Append(cur, Head(s)))

Split(s, sep) == SplitAcc(s, sep, <<>>)

(***************************************************************************)
(* The texts and parts requests are drawn from.                            *)
(***************************************************************************)
Hi == <<"h", "i">>
PaddedHi == <<" ", "h", "i", " ">>
Spam == <<"a", "a", "a", "a", "a", "a", "a", "a", "a", "a">>
RefinedText == <<"r", "e", "f">>
ReplyText == <<"n", "o">>

ImagePng == <<"i", "m", "a", "g", "e", "/", "p", "n", "g">>
AppPdf == <<"a", "p", "p", "/", "p", "d", "f">>
ImagePrefix == <<"i", "m", "a", "g", "e", "/">>
AudioPrefix == <<"a", "u", "d", "i", "o", "/">>
Payload == <<"Q", "U", "J", "D">>
DataUrl == <<"d", "a", "t", "a", ":", "x", ",">> \o Payload

TextPart(t) == [text |-> t, inlineData |-> NoData]
InlinePart(m, d) == [text |-> None, inlineData |-> [mimeType |-> m, data |-> d]]

\* V2ContentPart values: text parts (empty, blank, padded, spam-like), inline
\* parts (image with a data URL, image without data, unsupported type), and a
\* part with neither field.
PartSet ==
    {TextPart(t) : t \in {<<>>, <<" ">>, PaddedHi, Spam}}
    \cup {InlinePart(ImagePng, DataUrl), InlinePart(ImagePng, <<>>), InlinePart(AppPdf, Payload)}
    \cup {TextPart(None)}

ContentsSet == UNION {[1..n -> PartSet] : n \in 1..MaxParts}

(***************************************************************************)
(* vertex_formatter.py                                                     *)
(***************************************************************************)
ImmediateResponseText == <<"U+1F916">>

ErrorMessage == <<"I apologize, but I encountered an error processing your request.\n\nPlease try again.">>

UpstreamErrorMessage == <<"I encountered an issue processing your request. Please try again.">>

\* format_text_chunk: the JSON object of the frame, as the pair of the fields
\* that vary (the text of parts[0] and finishReason, "absent" when not set).
format_text_chunk(text, is_final, add_newlines) ==
    [text |-> IF add_newlines /\ ~is_final THEN text \o <<"\n", "\n">> ELSE text,
     finishReason |-> IF is_final THEN "STOP" ELSE "absent"]

\* Mutant: the acknowledgment formatted as a final chunk.
format_immediate_response_Final == format_text_chunk(ImmediateResponseText, TRUE, FALSE)

format_immediate_response == format_text_chunk(ImmediateResponseText, FALSE, FALSE)

\* Mutant: the direct reply formatted without finishReason.
format_direct_reply_NotFinal(reply_text) == format_text_chunk(reply_text, FALSE, FALSE)

format_direct_reply(reply_text) == format_text_chunk(reply_text, TRUE, FALSE)

\* Mutant: the error formatted without finishReason.
format_error_response_NotFinal(error_message) == format_text_chunk(error_message, FALSE, FALSE)

format_error_response(error_message) == format_text_chunk(error_message, TRUE, FALSE)

\* A frame as yielded: who produced it, its content, and whether it was
\* encoded to bytes (the _with_flush generator) or left a str.
Yielded(src, frame) == [src |-> src, frame |-> frame, bytes |-> entry = "echat_flush"]

(***************************************************************************)
(* prompt_analyzer.py                                                      *)
(***************************************************************************)
\* The members of the AnalysisAction enum, by name, and their values.
AnalysisActionMembers == {"REFINED", "DIRECT_REPLY", "PASS_THROUGH"}

AnalysisActionValues == {"refined", "direct_reply", "pass_through"}

\* Attribute access AnalysisAction.<name>: defined only for a member.
HasMember(name) == name \in AnalysisActionMembers

AnalysisResult(action, refined_prompt, direct_reply, reasoning) ==
    [action |-> action, refined_prompt |-> refined_prompt,
     direct_reply |-> direct_reply, reasoning |-> reasoning]

PassThroughResult(reasoning) == AnalysisResult("pass_through", None, None, reasoning)

Letters == {"a", "b", "c", "d", "e", "f", "g", "h", "i", "j", "k", "l", "m",
            "n", "o", "p", "q", "r", "s", "t", "u", "v", "w", "x", "y", "z"}

UpperToLower ==
    [c \in {"A", "B", "C", "D", "E", "F", "G", "H", "I", "J", "K", "L", "M",
            "N", "O", "P", "Q", "R", "S", "T", "U", "V", "W", "X", "Y", "Z"} |->
        CASE c = "A" -> "a" [] c = "B" -> "b" [] c = "C" -> "c" [] c = "D" -> "d"
          [] c = "E" -> "e" [] c = "F" -> "f" [] c = "G" -> "g" [] c = "H" -> "h"
          [] c = "I" -> "i" [] c = "J" -> "j" [] c = "K" -> "k" [] c = "L" -> "l"
          [] c = "M" -> "m" [] c = "N" -> "n" [] c = "O" -> "o" [] c = "P" -> "p"
          [] c = "Q" -> "q" [] c = "R" -> "r" [] c = "S" -> "s" [] c = "T" -> "t"
          [] c = "U" -> "u" [] c = "V" -> "v" [] c = "W" -> "w" [] c = "X" -> "x"
          [] c = "Y" -> "y" [] c = "Z" -> "z"]

\* str.lower(), one character
LowerChar(c) == IF c \in DOMAIN UpperToLower THEN UpperToLower[c] ELSE c

\* _is_spam_like: one letter is more than 60% of the letters of a message of
\* at least 10 characters (max/total > 0.6, in integers)
_is_spam_like(message) ==
    IF Len(message) < 10 THEN FALSE
    ELSE LET low == [i \in 1..Len(message) |-> LowerChar(message[i])]
             alpha == {i \in 1..Len(message) : low[i] \in Letters}
             total == Cardinality(alpha)
             count(c) == Cardinality({i \in alpha : low[i] = c})
         IN  /\ total > 0
             /\ \E i \in alpha : 10 * count(low[i]) > 6 * total

\* _validate_message_quality: the direct reply of the pre-filter, or
\* PassThroughResult("valid") standing for the None the code returns when the
\* message passes.
QualityPassed == PassThroughResult("valid")

\* Mutant: the pre-filter without the check for spam-like patterns.
_validate_message_quality_NoSpamCheck(user_message) ==
    IF user_message = None
    THEN AnalysisResult("direct_reply", None, <<"U+1F60D">>, "Message is None")
    ELSE IF Strip(user_message) = <<>>
    THEN AnalysisResult("direct_reply", None, <<"U+1F44C U+1F3FB">>,
                        "Message is empty after normalization")
    ELSE QualityPassed

\* Mutant: the pre-filter without the check for an empty message.
_validate_message_quality_NoEmptyCheck(user_message) ==
    IF user_message = None
    THEN AnalysisResult("direct_reply", None, <<"U+1F60D">>, "Message is None")
    ELSE IF _is_spam_like(Strip(user_message))
    THEN AnalysisResult("direct_reply", None, <<"U+1F44B">>, "Spam-like pattern detected")
    ELSE QualityPassed

_validate_message_quality(user_message) ==
    IF user_message = None
    THEN AnalysisResult("direct_reply", None, <<"U+1F60D">>, "Message is None")
    ELSE IF Strip(user_message) = <<>>
    THEN AnalysisResult("direct_reply", None, <<"U+1F44C U+1F3FB">>,
                        "Message is empty after normalization")
    ELSE IF _is_spam_like(Strip(user_message))
    THEN AnalysisResult("direct_reply", None, <<"U+1F44B">>, "Spam-like pattern detected")
    ELSE QualityPassed

\* Mutant: a reply is split whenever it has a second sentence.
_enhance_direct_reply_SplitsTwo(reply_text) ==
    LET reply == Strip(reply_text)
        sentences == Split(reply, <<".", " ">>)
        mid_point == IF Len(sentences) = 2 THEN 1 ELSE Len(sentences) \div 2
        part1 == Join(SubSeq(sentences, 1, mid_point), <<".", " ">>) \o <<".">>
        tail2 == Join(SubSeq(sentences, mid_point + 1, Len(sentences)), <<".", " ">>)
        part2 == IF tail2 # <<>> /\ tail2[Len(tail2)] = "." THEN tail2 ELSE tail2 \o <<".">>
    IN  IF ~Contains(reply, <<"\n">>) /\ Contains(reply, <<".", " ">>)
        THEN part1 \o <<"\n", "\n">> \o part2
        ELSE reply

\* _enhance_direct_reply
_enhance_direct_reply(reply_text) ==
    LET reply == Strip(reply_text)
        sentences == Split(reply, <<".", " ">>)
        mid_point == Len(sentences) \div 2
        part1 == Join(SubSeq(sentences, 1, mid_point), <<".", " ">>) \o <<".">>
        tail2 == Join(SubSeq(sentences, mid_point + 1, Len(sentences)), <<".", " ">>)
        part2 == IF tail2 # <<>> /\ tail2[Len(tail2)] = "." THEN tail2 ELSE tail2 \o <<".">>
    IN  IF ~Contains(reply, <<"\n">>) /\ Contains(reply, <<".", " ">>) /\ Len(sentences) > 2
        THEN part1 \o <<"\n", "\n">> \o part2
        ELSE reply

\* What the analysis call can produce: no answer within the analyzer's own
\* timeout, a failed call (token, transport, non-success status), a body that
\* is not JSON, a body without candidates, or a JSON verdict.
JsonOutcome(action, refined_prompt, direct_reply) ==
    [kind |-> "json", action |-> action, refined_prompt |-> refined_prompt,
     direct_reply |-> direct_reply]

NoOutcome == [kind |-> "none", action |-> "absent", refined_prompt |-> None, direct_reply |-> None]

NetworkOutcomes ==
    {[kind |-> k, action |-> "absent", refined_prompt |-> None, direct_reply |-> None] :
        k \in {"timeout", "call_failed", "malformed", "no_candidates"}}
    \cup {JsonOutcome("refined", RefinedText, None),
          JsonOutcome("refined", None, None),
          JsonOutcome("refined", <<>>, None),
          JsonOutcome("refine", RefinedText, None),
          JsonOutcome("direct_reply", None, ReplyText),
          JsonOutcome("direct_reply", None, None),
          JsonOutcome("pass_through", None, None),
          JsonOutcome("absent", None, None)}

\* _parse_analysis_response, on a body that decoded to candidates[0] with text
\* holding the JSON verdict o; an action outside the enum raises ValueError,
\* which the parser catches.
_parse_analysis_response(o) ==
    IF o.kind = "malformed" THEN PassThroughResult("Parse error")
    ELSE IF o.kind = "no_candidates" THEN PassThroughResult("Response parsing failed")
    ELSE LET action == IF o.action = "absent" THEN "pass_through" ELSE o.action
         IN  IF action \notin AnalysisActionValues THEN PassThroughResult("Parse error")
             ELSE AnalysisResult(action, o.refined_prompt,
                      IF action = "direct_reply" /\ Truthy(o.direct_reply)
                      THEN _enhance_direct_reply(o.direct_reply) ELSE o.direct_reply,
                      "parsed")

\* analyze_prompt once the pre-filter has passed: the result for each outcome
\* of the analysis call (lines 208-235)
analyze_prompt_network(o) ==
    IF o.kind = "timeout" THEN PassThroughResult("Analysis timed out for responsiveness")
    ELSE IF o.kind = "call_failed" THEN PassThroughResult("Analysis error")
    ELSE _parse_analysis_response(o)

(***************************************************************************)
(* v2_translator.py                                                        *)
(***************************************************************************)
LanguageInstructions ==
    [l \in {"en", "zh", "es", "fr", "ja"} |->
        CASE l = "en" -> <<"Respond in English.">>
          [] l = "zh" -> <<"(zh) Please answer in Chinese.">>
          [] l = "es" -> <<"Responde en espanol.">>
          [] l = "fr" -> <<"Repondez en francais.">>
          [] l = "ja" -> <<"(ja) Please answer in Japanese.">>]

\* Mutant: the data URL prefix stays in the payload.
TranslatePart_KeepsPrefix(content_part) ==
    IF Truthy(content_part.text)
    THEN IF Strip(content_part.text) # <<>>
         THEN <<TextPart(Strip(content_part.text))>>
         ELSE <<>>
    ELSE IF content_part.inlineData # NoData
    THEN LET mime_type == content_part.inlineData.mimeType
             raw == content_part.inlineData.data
         IN  IF raw = <<>> THEN <<>>
             ELSE IF StartsWith(mime_type, ImagePrefix) \/ StartsWith(mime_type, AudioPrefix)
             THEN <<InlinePart(mime_type, raw)>>
             ELSE <<TextPart(<<"[Unsupported content type: ">> \o mime_type \o <<"]">>)>>
    ELSE <<>>

\* Mutant: a part of an unsupported type is skipped.
TranslatePart_DropsUnsupported(content_part) ==
    IF Truthy(content_part.text)
    THEN IF Strip(content_part.text) # <<>>
         THEN <<TextPart(Strip(content_part.text))>>
         ELSE <<>>
    ELSE IF content_part.inlineData # NoData
    THEN LET mime_type == content_part.inlineData.mimeType
             raw == content_part.inlineData.data
             data == IF Contains(raw, <<",">>) THEN Split(raw, <<",">>)[2] ELSE raw
         IN  IF raw = <<>> THEN <<>>
             ELSE IF StartsWith(mime_type, ImagePrefix) \/ StartsWith(mime_type, AudioPrefix)
             THEN <<InlinePart(mime_type, data)>>
             ELSE <<>>
    ELSE <<>>

\* The wire-level parts one content part becomes: none when it is skipped.
TranslatePart(content_part) ==
    IF Truthy(content_part.text)
    THEN IF Strip(content_part.text) # <<>>
         THEN <<TextPart(Strip(content_part.text))>>
         ELSE <<>>
    ELSE IF content_part.inlineData # NoData
    THEN LET mime_type == content_part.inlineData.mimeType
             raw == content_part.inlineData.data
             data == IF Contains(raw, <<",">>) THEN Split(raw, <<",">>)[2] ELSE raw
         IN  IF raw = <<>> THEN <<>>
             ELSE IF StartsWith(mime_type, ImagePrefix) \/ StartsWith(mime_type, AudioPrefix)
             THEN <<InlinePart(mime_type, data)>>
             ELSE <<TextPart(<<"[Unsupported content type: ">> \o mime_type \o <<"]">>)>>
    ELSE <<>>

RECURSIVE TranslateParts(_)
TranslateParts(contents) ==
    IF contents = <<>> THEN <<>>
    ELSE TranslatePart(Head(contents)) \o TranslateParts(Tail(contents))

\* Mutant: the language instruction comes after the user's parts.
v2_to_vertex_InstructionLast(req) ==
    LET lang_instruction ==
            IF req.language # "None" /\ req.language # "en"
               /\ req.language \in DOMAIN LanguageInstructions
            THEN <<TextPart(LanguageInstructions[req.language])>>
            ELSE <<>>
    IN  <<[role |-> "user", parts |-> TranslateParts(req.contents) \o lang_instruction]>>

\* v2_to_vertex: the single user turn of the VertexRequest (safetySettings,
\* tools and generationConfig are the same for every request).
v2_to_vertex(req) ==
    LET lang_instruction ==
            IF req.language # "None" /\ req.language # "en"
               /\ req.language \in DOMAIN LanguageInstructions
            THEN <<TextPart(LanguageInstructions[req.language])>>
            ELSE <<>>
    IN  <<[role |-> "user", parts |-> lang_instruction \o TranslateParts(req.contents)]>>

\* No upstream response yet.
NoResponse == [status |-> 0, body |-> <<>>, chunks |-> <<>>]

\* httpx Response.is_success
is_success(response) == response.status >= 200 /\ response.status <= 299

\* No VertexRequest built yet.
NoVertexRequest == <<>>

(***************************************************************************)
(* v2_api_enhanced.py: helpers                                             *)
(***************************************************************************)
\* "part.text and part.text.strip()"
HasText(part) == Truthy(part.text) /\ Strip(part.text) # <<>>

RECURSIVE TextPartsOf(_)
TextPartsOf(contents) ==
    IF contents = <<>> THEN <<>>
    ELSE (IF HasText(Head(contents)) THEN <<Head(contents).text>> ELSE <<>>)
         \o TextPartsOf(Tail(contents))

IsImagePart(part) ==
    /\ part.inlineData # NoData
    /\ StartsWith(part.inlineData.mimeType, ImagePrefix)

\* apply_refined_prompt: the contents with the first part that has text
\* given the refined prompt; the loop breaks there.
apply_refined_prompt(contents, refined_prompt) ==
    IF \E i \in 1..Len(contents) : HasText(contents[i])
    THEN LET first == CHOOSE i \in 1..Len(contents) :
                        /\ HasText(contents[i])
                        /\ \A j \in 1..(i - 1) : ~HasText(contents[j])
         IN  [contents EXCEPT ![first].text = refined_prompt]
    ELSE contents

\* The initial value of analysis_result (lines 158-161).
DefaultResult == PassThroughResult("Using pass-through for immediate response")

\* analysis_result before Step 3 has assigned it.
Unset == PassThroughResult("unset")

\* No function is being applied on its own: a request is being served.
NoCall == [fn |-> "none"]

\* No handler is being called on its own.
\* (An absent token or expiry is the empty sequence, a known one a sequence of
\* one number: the minute the token was issued, the minute it expires.)
NoHandler == [loaded |-> FALSE, token |-> <<>>, expiry |-> <<>>, project_id |-> "None", skew |-> 0]

NoAuthLog == [loadedOk |-> FALSE, firstProject |-> "None", reloaded |-> FALSE,
              refreshFailed |-> FALSE]

\* A request is being served: nothing is applied on its own.
NoHarness ==
    /\ call = NoCall
    /\ handler = NoHandler
    /\ now = 0
    /\ callers = <<>>
    /\ running = 0
    /\ authLog = NoAuthLog

(***************************************************************************)
(* auth_handler.py and the lazily initialised globals                      *)
(***************************************************************************)
NotLoaded == [loaded |-> FALSE, project_id |-> "None", token |-> "none"]

\* _load_credentials, when the source can be read: the project id is the one
\* the source names, None when it names none.
_load_credentials(source) ==
    [loaded |-> TRUE, project_id |-> IF source = "ok" THEN "proj" ELSE "None", token |-> "none"]

\* get_project_id loads the credentials when it has neither a project id nor
\* credentials.
NeedsLoad(c) == c.project_id = "None" /\ ~c.loaded

\* get_prompt_analyzer: the value of the _analyzer global after the call;
\* a failed initialisation leaves it unset and the call returns None.
get_prompt_analyzer(a, source) ==
    IF a = "ready" THEN "ready"
    ELSE IF source = "fail" THEN "none" ELSE "ready"

(***************************************************************************)
(* The initial states: a request arrives at /v2/echat.  The globals are as *)
(* earlier requests left them.                                             *)
(***************************************************************************)
Requests == [contents : ContentsSet, language : {"en", "fr"}]

\* The translator global: "none" until get_translator() has set it, then
\* "ready" when its prompt_analyzer attribute holds the analyzer and
\* "ready_no_analyzer" when it holds None.
V2MessageTranslator(enabled, a) ==
    IF enabled /\ a = "ready" THEN "ready" ELSE "ready_no_analyzer"

\* The globals as earlier requests can have left them, with the token of
\* loaded credentials in one of the given states.
Globals(tokens) ==
    /\ credSource \in {"ok", "no_project", "fail"}
    /\ analyzer \in {"none", "ready"}
    /\ \/ translator = "none" /\ creds = NotLoaded
       \/ /\ translator \in {"ready_no_analyzer"}
                            \cup (IF analysisEnabled /\ analyzer = "ready" THEN {"ready"} ELSE {})
          /\ creds \in {[c EXCEPT !.token = t] :
                            c \in {_load_credentials("ok"), _load_credentials("no_project")},
                            t \in tokens}

Idle ==
    /\ task = "none"
    /\ taskResult = Unset
    /\ analysis_result = Unset
    /\ decidedBy = "none"
    /\ networkOutcome = NoOutcome
    /\ lateArrived = FALSE
    /\ stop_processing = FALSE
    /\ NoHarness
    /\ vertexRequest = NoVertexRequest
    /\ upstream = NoResponse
    /\ posts = 0
    /\ out = <<>>
    /\ calls = {}
    /\ exc = "none"

Init ==
    /\ entry \in {"echat_flush", "echat"}
    /\ pc = "start"
    /\ request \in Requests
    /\ origRequest = request
    /\ analysisEnabled \in BOOLEAN
    /\ Globals({"none"})
    /\ Idle

(***************************************************************************)
(* stream_v2_enhanced_response_with_flush and stream_v2_enhanced_response  *)
(* (the two differ only in encoding each frame to bytes).                  *)
(***************************************************************************)
\* Mutant: the generator goes on to get_translator() without yielding the
\* acknowledgment.
SendAck_Skipped ==
    /\ pc = "start"
    /\ pc' = "init_translator"
    /\ UNCHANGED <<harnessVars, entry, stop_processing, request, origRequest, analysisEnabled, credSource, translator,
                   creds, analyzer, task, taskResult, analysis_result, decidedBy,
                   networkOutcome, lateArrived, vertexRequest, upstream, posts, out, calls, exc>>

\* Step 1: the acknowledgment is formatted and yielded.
SendAck ==
    /\ pc = "start"
    /\ out' = Append(out, Yielded("ack", format_immediate_response))
    /\ pc' = "init_translator"
    /\ UNCHANGED <<harnessVars, entry, stop_processing, request, origRequest, analysisEnabled, credSource, translator,
                   creds, analyzer, task, taskResult, analysis_result, decidedBy,
                   networkOutcome, lateArrived, vertexRequest, upstream, posts, calls, exc>>

\* get_translator(): a translator already set is returned; otherwise the
\* project id is read (loading the credentials if need be, which raises when
\* the source fails) and V2MessageTranslator is constructed, which
\* initialises the analyzer when analysis is enabled.  next is the position
\* after the call.
get_translator(next) ==
    IF translator # "none"
    THEN /\ calls' = calls \cup {"get_translator"}
         /\ pc' = next
         /\ UNCHANGED <<translator, creds, analyzer, exc>>
    ELSE IF NeedsLoad(creds) /\ credSource = "fail"
    THEN /\ calls' = calls \cup {"get_translator", "load_credentials"}
         /\ exc' = "CredentialError"
         /\ pc' = "except"
         /\ UNCHANGED <<translator, creds, analyzer>>
    ELSE /\ calls' = calls \cup {"get_translator"}
                        \cup (IF NeedsLoad(creds) THEN {"load_credentials"} ELSE {})
         /\ creds' = IF NeedsLoad(creds) THEN _load_credentials(credSource) ELSE creds
         /\ translator' = V2MessageTranslator(analysisEnabled,
                                              get_prompt_analyzer(analyzer, credSource))
         /\ analyzer' = IF analysisEnabled
                        THEN get_prompt_analyzer(analyzer, credSource) ELSE analyzer
         /\ pc' = next
         /\ UNCHANGED exc

\* Step 2: get_translator().
InitTranslator ==
    /\ pc = "init_translator"
    /\ get_translator("step3")
    /\ UNCHANGED <<harnessVars, entry, stop_processing, request, origRequest, analysisEnabled, credSource,
                   task, taskResult, analysis_result, decidedBy,
                   networkOutcome, lateArrived, vertexRequest, upstream, posts, out>>

\* Step 3: analysis_result starts as pass-through; with analysis enabled the
\* task is created and awaited with the 0.1 s timeout.
StartAnalysis ==
    /\ pc = "step3"
    /\ analysis_result' = DefaultResult
    /\ IF analysisEnabled
       THEN /\ task' = "created"
            /\ calls' = calls \cup {"create_task"}
            /\ pc' = "wait_for"
            /\ UNCHANGED decidedBy
       ELSE /\ decidedBy' = "disabled"
            /\ pc' = "step4"
            /\ UNCHANGED <<task, calls>>
    /\ UNCHANGED <<harnessVars, entry, stop_processing, request, origRequest, analysisEnabled, credSource, translator,
                   creds, analyzer, taskResult, networkOutcome, lateArrived,
                   vertexRequest, upstream, posts, out, exc>>

\* run_background_analysis up to its await: no text, no analyzer and the
\* pre-filter of analyze_prompt end the task at once; otherwise the analysis
\* call is made and the task waits for its response.
RunBackgroundAnalysis ==
    /\ task = "created"
    /\ LET text_parts == TextPartsOf(request.contents)
           combined_text == Strip(Join(text_parts, <<" ">>))
           got == get_prompt_analyzer(analyzer, credSource)
           quality == _validate_message_quality(combined_text)
       IN  IF text_parts = <<>>
           THEN /\ taskResult' = PassThroughResult("No text content to analyze")
                /\ task' = "done"
                /\ UNCHANGED <<analyzer, calls>>
           ELSE IF got = "none"
           THEN /\ taskResult' = PassThroughResult("Prompt analyzer not available")
                /\ task' = "done"
                /\ calls' = calls \cup {"get_prompt_analyzer"}
                /\ UNCHANGED analyzer
           ELSE IF quality # QualityPassed
           THEN /\ taskResult' = quality
                /\ task' = "done"
                /\ analyzer' = got
                /\ calls' = calls \cup {"get_prompt_analyzer"}
           ELSE /\ task' = "awaiting"
                /\ analyzer' = got
                /\ calls' = calls \cup {"get_prompt_analyzer", "analysis_call"}
                /\ UNCHANGED taskResult
    /\ UNCHANGED <<harnessVars, entry, stop_processing, pc, request, origRequest, analysisEnabled, credSource, translator,
                   creds, analysis_result, decidedBy, networkOutcome, lateArrived,
                   vertexRequest, upstream, posts, out, exc>>

\* The analysis call returns (or fails, or times out in the analyzer) and the
\* task finishes with the result analyze_prompt makes of it.
AnalysisCallReturns ==
    /\ task = "awaiting"
    /\ \E o \in NetworkOutcomes :
        /\ networkOutcome' = o
        /\ taskResult' = analyze_prompt_network(o)
    /\ task' = "done"
    /\ UNCHANGED <<harnessVars, entry, stop_processing, pc, request, origRequest, analysisEnabled, credSource, translator,
                   creds, analyzer, analysis_result, decidedBy, lateArrived,
                   vertexRequest, upstream, posts, out, calls, exc>>

\* wait_for returns the task's result: the task finished within the timeout.
WaitForReturn ==
    /\ pc = "wait_for"
    /\ task = "done"
    /\ analysis_result' = taskResult
    /\ decidedBy' = "result"
    /\ pc' = "step4"
    /\ UNCHANGED <<harnessVars, entry, stop_processing, request, origRequest, analysisEnabled, credSource, translator,
                   creds, analyzer, task, taskResult, networkOutcome, lateArrived,
                   vertexRequest, upstream, posts, out, calls, exc>>

\* Mutant: on timeout the orchestrator goes on and leaves the task running.
WaitForTimeout_NoCancel ==
    /\ pc = "wait_for"
    /\ task \in {"created", "awaiting"}
    /\ decidedBy' = "timeout"
    /\ pc' = "step4"
    /\ UNCHANGED <<harnessVars, entry, stop_processing, request, origRequest, analysisEnabled, credSource, translator,
                   creds, analyzer, task, taskResult, analysis_result, networkOutcome,
                   lateArrived, vertexRequest, upstream, posts, out, calls, exc>>

\* The timeout expires first: wait_for cancels the task and raises
\* TimeoutError; the handler cancels it again and analysis_result keeps its
\* initial value.
WaitForTimeout ==
    /\ pc = "wait_for"
    /\ task \in {"created", "awaiting"}
    /\ task' = "cancelled"
    /\ decidedBy' = "timeout"
    /\ pc' = "step4"
    /\ UNCHANGED <<harnessVars, entry, stop_processing, request, origRequest, analysisEnabled, credSource, translator,
                   creds, analyzer, taskResult, analysis_result, networkOutcome, lateArrived,
                   vertexRequest, upstream, posts, out, calls, exc>>

\* The response of an analysis call whose task was cancelled arrives: nobody
\* awaits it, and it is dropped.
LateResponse ==
    /\ task = "cancelled"
    /\ "analysis_call" \in calls
    /\ ~lateArrived
    /\ \E o \in NetworkOutcomes : networkOutcome' = o
    /\ lateArrived' = TRUE
    /\ UNCHANGED <<harnessVars, entry, stop_processing, pc, request, origRequest, analysisEnabled, credSource, translator,
                   creds, analyzer, task, taskResult, analysis_result, decidedBy,
                   vertexRequest, upstream, posts, out, calls, exc>>

\* Mutant: the direct reply is yielded but the generator does not return, so
\* Step 5 runs next.
DirectReply_FallsThrough ==
    /\ pc = "step4"
    /\ analysis_result.action = "direct_reply"
    /\ out' = Append(out, Yielded("direct", format_direct_reply(analysis_result.direct_reply)))
    /\ exc' = "AttributeError"
    /\ pc' = "except"
    /\ UNCHANGED <<harnessVars, entry, stop_processing, request, origRequest, analysisEnabled, credSource, translator,
                   creds, analyzer, task, taskResult, analysis_result, decidedBy,
                   networkOutcome, lateArrived, vertexRequest, upstream, posts, calls>>

\* Step 4: a direct reply is yielded as the final frame and the generator
\* returns.
DirectReply ==
    /\ pc = "step4"
    /\ analysis_result.action = "direct_reply"
    /\ out' = Append(out, Yielded("direct", format_direct_reply(analysis_result.direct_reply)))
    /\ pc' = "closed"
    /\ UNCHANGED <<harnessVars, entry, stop_processing, request, origRequest, analysisEnabled, credSource, translator,
                   creds, analyzer, task, taskResult, analysis_result, decidedBy,
                   networkOutcome, lateArrived, vertexRequest, upstream, posts, calls, exc>>

\* The value of each member of AnalysisAction.
MemberValue ==
    [n \in AnalysisActionMembers |->
        CASE n = "REFINED" -> "refined"
          [] n = "DIRECT_REPLY" -> "direct_reply"
          [] n = "PASS_THROUGH" -> "pass_through"]

\* Step 5: the condition reads AnalysisAction.REFINE.  The enum has no such
\* member (it has REFINED), so the attribute access raises AttributeError
\* whatever the verdict is; were the member there, the refined prompt would
\* be applied and Step 6 would follow.
ApplyRefinement ==
    /\ pc = "step4"
    /\ analysis_result.action # "direct_reply"
    /\ IF HasMember("REFINE")
       THEN /\ request' =
                 IF /\ analysis_result.action = MemberValue["REFINE"]
                    /\ Truthy(analysis_result.refined_prompt)
                 THEN [request EXCEPT !.contents =
                          apply_refined_prompt(request.contents, analysis_result.refined_prompt)]
                 ELSE request
            /\ pc' = "step6"
            /\ UNCHANGED exc
       ELSE /\ exc' = "AttributeError"
            /\ pc' = "except"
            /\ UNCHANGED request
    /\ UNCHANGED <<harnessVars, entry, stop_processing, origRequest, analysisEnabled, credSource, translator,
                   creds, analyzer, task, taskResult, analysis_result, decidedBy,
                   networkOutcome, lateArrived, vertexRequest, upstream, posts, out, calls>>

\* except Exception: the error frame is yielded and the generator ends.
ExceptHandler ==
    /\ entry \in {"echat_flush", "echat"}
    /\ pc = "except"
    /\ out' = Append(out, Yielded("error", format_error_response(ErrorMessage)))
    /\ pc' = "closed"
    /\ UNCHANGED <<harnessVars, entry, stop_processing, request, origRequest, analysisEnabled, credSource, translator,
                   creds, analyzer, task, taskResult, analysis_result, decidedBy,
                   networkOutcome, lateArrived, vertexRequest, upstream, posts, calls, exc>>

Next ==
    \/ SendAck
    \/ InitTranslator
    \/ StartAnalysis
    \/ RunBackgroundAnalysis
    \/ AnalysisCallReturns
    \/ WaitForReturn
    \/ WaitForTimeout
    \/ LateResponse
    \/ DirectReply
    \/ ApplyRefinement
    \/ ExceptHandler

Spec == Init /\ [][Next]_vars

(***************************************************************************)
(* The upstream call.  get_access_token and the POST are the same code in  *)
(* stream_from_vertex_ai (v2_api_enhanced.py) and in stream_v2_response    *)
(* (v2_api.py); each module has its own auth_handler and translator        *)
(* globals, and the variables stand for those of the module serving the    *)
(* request.                                                                *)
(***************************************************************************)
GenerateImage == <<"G", "e", "n", "e", "r", "a", "t", "e", " ", "i", "m", "a", "g", "e">>
AnalyzeThis == <<"a", "n", "a", "l", "y", "z", "e">>
WordGenerate == <<"g", "e", "n", "e", "r", "a", "t", "e">>
WordImage == <<"i", "m", "a", "g", "e">>

\* The requests of the upstream specification: text that passes, spam-like text, text with
\* the words the legacy preprocessing looks for, an image and a part with
\* neither field.
PipelinePartSet ==
    {TextPart(t) : t \in {PaddedHi, Spam, GenerateImage, AnalyzeThis}}
    \cup {InlinePart(ImagePng, DataUrl), TextPart(None)}

PipelineRequests == [contents : UNION {[1..n -> PipelinePartSet] : n \in 1..MaxParts}, language : {"en", "fr"}]

\* What the upstream can answer: a non-success status with an error body, or
\* 200 with the chunks aiter_text() will yield.  The body is read whole by
\* client.post(), so the chunks are fixed once the call has returned.
UpstreamChunks == {format_text_chunk(Hi, FALSE, FALSE), format_text_chunk(<<"!">>, TRUE, FALSE)}

UpstreamResponses ==
    {[status |-> st, body |-> b, chunks |-> <<>>] :
        st \in {400, 503}, b \in {<<"quota exceeded">>, <<"internal: backend-7 down">>}}
    \cup {[status |-> 200, body |-> <<>>, chunks |-> cs] :
            cs \in UNION {[1..n -> UpstreamChunks] : n \in 0..MaxChunks}}

\* get_access_token: the credentials are loaded if they are not, refreshed
\* when the token is not fresh, and the token is returned; a failed load or
\* refresh raises.  next is the position after the call.
get_access_token(next) ==
    /\ calls' = calls \cup {"get_access_token"}
    /\ IF ~creds.loaded /\ credSource = "fail"
       THEN /\ exc' = "CredentialError"
            /\ pc' = "except"
            /\ UNCHANGED creds
       ELSE LET c == IF creds.loaded THEN creds ELSE _load_credentials(credSource)
            IN  IF c.token = "fresh"
                THEN /\ creds' = c
                     /\ pc' = next
                     /\ UNCHANGED exc
                ELSE \E refreshed \in BOOLEAN :
                        IF refreshed
                        THEN /\ creds' = [c EXCEPT !.token = "fresh"]
                             /\ pc' = next
                             /\ UNCHANGED exc
                        ELSE /\ creds' = c
                             /\ exc' = "CredentialError"
                             /\ pc' = "except"

\* client.post(): one upstream generation call; it returns a response or
\* raises on a transport failure.  next is the position after the call.
client_post(next) ==
    /\ posts < MaxPosts
    /\ posts' = posts + 1
    /\ calls' = calls \cup {"upstream_post"}
    /\ \/ \E r \in UpstreamResponses :
            /\ upstream' = r
            /\ pc' = next
            /\ UNCHANGED exc
       \/ /\ exc' = "TransportError"
          /\ pc' = "except"
          /\ UNCHANGED upstream

(***************************************************************************)
(* v2_api_enhanced.py from Step 6 on: v2_to_vertex and                     *)
(* stream_from_vertex_ai.  Under Spec no behaviour reaches Step 6, because *)
(* Step 5 raises; InitProxy below starts the code at Step 6.               *)
(***************************************************************************)
\* Step 6: the request is translated.
Translate ==
    /\ pc = "step6"
    /\ vertexRequest' = v2_to_vertex(request)
    /\ pc' = "sfv_token"
    /\ UNCHANGED <<harnessVars, entry, stop_processing, request, origRequest, analysisEnabled, credSource, translator,
                   creds, analyzer, task, taskResult, analysis_result, decidedBy,
                   networkOutcome, lateArrived, upstream, posts, out, calls, exc>>

\* stream_from_vertex_ai: the endpoint and the token.
SfvGetToken ==
    /\ pc = "sfv_token"
    /\ get_access_token("sfv_post")
    /\ UNCHANGED <<harnessVars, entry, stop_processing, request, origRequest, analysisEnabled, credSource, translator,
                   analyzer, task, taskResult, analysis_result, decidedBy,
                   networkOutcome, lateArrived, vertexRequest, upstream, posts, out>>

\* stream_from_vertex_ai: the POST.
SfvPost ==
    /\ pc = "sfv_post"
    /\ client_post("sfv_status")
    /\ UNCHANGED <<harnessVars, entry, stop_processing, request, origRequest, analysisEnabled, credSource, translator,
                   creds, analyzer, task, taskResult, analysis_result, decidedBy,
                   networkOutcome, lateArrived, vertexRequest, out>>

\* stream_from_vertex_ai: a non-success status yields the error frame and the
\* generator returns, which ends the orchestrator's loop and the response.
SfvNonSuccess ==
    /\ pc = "sfv_status"
    /\ ~is_success(upstream)
    /\ out' = Append(out, Yielded("upstream_error", format_error_response(UpstreamErrorMessage)))
    /\ pc' = "closed"
    /\ UNCHANGED <<harnessVars, entry, stop_processing, request, origRequest, analysisEnabled, credSource, translator,
                   creds, analyzer, task, taskResult, analysis_result, decidedBy,
                   networkOutcome, lateArrived, vertexRequest, upstream, posts, calls, exc>>

\* stream_from_vertex_ai: the next chunk of the response is yielded as it is
\* and the orchestrator yields it on.
SfvForward ==
    /\ pc = "sfv_status"
    /\ is_success(upstream)
    /\ upstream.chunks # <<>>
    /\ out' = Append(out, Yielded("upstream", Head(upstream.chunks)))
    /\ upstream' = [upstream EXCEPT !.chunks = Tail(upstream.chunks)]
    /\ UNCHANGED <<harnessVars, entry, stop_processing, pc, request, origRequest, analysisEnabled, credSource, translator,
                   creds, analyzer, task, taskResult, analysis_result, decidedBy,
                   networkOutcome, lateArrived, vertexRequest, posts, calls, exc>>

\* The response is exhausted: both generators end.
SfvEnd ==
    /\ pc = "sfv_status"
    /\ is_success(upstream)
    /\ upstream.chunks = <<>>
    /\ pc' = "closed"
    /\ UNCHANGED <<harnessVars, entry, stop_processing, request, origRequest, analysisEnabled, credSource, translator,
                   creds, analyzer, task, taskResult, analysis_result, decidedBy,
                   networkOutcome, lateArrived, vertexRequest, upstream, posts, out, calls, exc>>

\* Control at Step 6 of either enhanced generator: the acknowledgment is out,
\* the translator is set, the verdict is not a direct reply.
InitProxy ==
    /\ entry \in {"echat_flush", "echat"}
    /\ pc = "step6"
    /\ request \in PipelineRequests
    /\ origRequest = request
    /\ analysisEnabled = FALSE
    /\ Globals({"fresh", "stale"})
    /\ translator # "none"
    /\ task = "none"
    /\ taskResult = Unset
    /\ analysis_result = DefaultResult
    /\ decidedBy = "disabled"
    /\ networkOutcome = NoOutcome
    /\ lateArrived = FALSE
    /\ stop_processing = FALSE
    /\ NoHarness
    /\ vertexRequest = NoVertexRequest
    /\ upstream = NoResponse
    /\ posts = 0
    /\ out = <<Yielded("ack", format_immediate_response)>>
    /\ calls = {"get_translator"}
    /\ exc = "none"

(***************************************************************************)
(* v2_api.py: stream_v2_response, the /v2/chat pipeline, up to the status  *)
(* of the upstream response; with v2_translator.py's validate_user_content *)
(* and preprocess_request.                                                 *)
(***************************************************************************)
\* str.lower()
Lower(s) == [i \in 1..Len(s) |-> LowerChar(s[i])]

\* str(i) for the index of a content part
Digits == <<"0", "1", "2", "3", "4", "5", "6", "7", "8", "9">>

\* The issue validate_user_content records for part i (counted from 0), as a
\* sequence of no or one issue text.
IssueOf(i, part) ==
    LET at == <<"Content part ", Digits[i + 1], ": ">>
    IN  IF Truthy(part.text)
        THEN IF Strip(part.text) = <<>> THEN <<at \o <<"Empty text content">>>> ELSE <<>>
        ELSE IF part.inlineData # NoData
        THEN LET mime_type == part.inlineData.mimeType
                 data == part.inlineData.data
             IN  IF StartsWith(mime_type, ImagePrefix)
                 THEN IF ~Truthy(data) THEN <<at \o <<"Empty image data">>>> ELSE <<>>
                 ELSE IF StartsWith(mime_type, AudioPrefix)
                 THEN IF ~Truthy(data) THEN <<at \o <<"Empty audio data">>>> ELSE <<>>
                 ELSE <<at \o <<"Unknown mime type '">> \o mime_type \o <<"'">>>>
        ELSE <<at \o <<"Neither text nor inlineData provided">>>>

RECURSIVE IssuesFrom(_, _)
IssuesFrom(contents, i) ==
    IF contents = <<>> THEN <<>>
    ELSE IssueOf(i, Head(contents)) \o IssuesFrom(Tail(contents), i + 1)

\* validate_user_content (the summary counts are only logged)
validate_user_content(req) ==
    LET issues == IssuesFrom(req.contents, 0)
    IN  [valid |-> issues = <<>>, issues |-> issues]

\* V2SystemMessage(...).model_dump() and V2ResponseChunk
V2SystemMessage(type, content, action) == [type |-> type, content |-> content, action |-> action]

V2ResponseChunk(type, content, is_final) == [type |-> type, content |-> content, is_final |-> is_final]

\* A chunk as stream_v2_response yields it: one "data: <json>" event.
YieldedChunk(src, chunk) == [src |-> src, frame |-> chunk, bytes |-> FALSE]

\* get_translator()
ChatGetTranslator ==
    /\ pc = "chat_start"
    /\ get_translator("chat_validate")
    /\ UNCHANGED <<harnessVars, entry, stop_processing, request, origRequest, analysisEnabled, credSource,
                   task, taskResult, analysis_result, decidedBy,
                   networkOutcome, lateArrived, vertexRequest, upstream, posts, out>>

\* Mutant: a request whose content has issues is refused with an error chunk.
ChatValidate_Fatal ==
    /\ pc = "chat_validate"
    /\ LET validation == validate_user_content(request)
       IN  IF validation.valid
           THEN pc' = "chat_analyze" /\ UNCHANGED out
           ELSE /\ out' = Append(out, YieldedChunk("error",
                            V2ResponseChunk("error", Join(validation.issues, <<", ">>), TRUE)))
                /\ pc' = "closed"
    /\ UNCHANGED <<harnessVars, entry, stop_processing, request, origRequest, analysisEnabled, credSource,
                   translator, creds, analyzer, task, taskResult, analysis_result, decidedBy,
                   networkOutcome, lateArrived, vertexRequest, upstream, posts, calls, exc>>

\* preprocess_request, Step 1: the validation warning, with the first three
\* issues, when the content has issues.
ChatValidate ==
    /\ pc = "chat_validate"
    /\ LET validation == validate_user_content(request)
           shown == SubSeq(validation.issues, 1,
                           IF Len(validation.issues) < 3 THEN Len(validation.issues) ELSE 3)
       IN  out' = IF validation.valid THEN out
                  ELSE Append(out, YieldedChunk("system",
                          V2ResponseChunk("system",
                              V2SystemMessage("validation_warning",
                                  <<"Some content parts have issues: ">>
                                      \o Join(shown, <<", ">>) \o <<"...">>,
                                  "None"),
                              FALSE)))
    /\ pc' = "chat_analyze"
    /\ UNCHANGED <<harnessVars, entry, stop_processing, request, origRequest, analysisEnabled, credSource,
                   translator, creds, analyzer, task, taskResult, analysis_result, decidedBy,
                   networkOutcome, lateArrived, vertexRequest, upstream, posts, calls, exc>>

\* preprocess_request, Steps 2 and 3: with an analyzer, text and analysis
\* enabled the prompt is analysed.  A direct reply sets the request's
\* attributes and ends the preprocessing; a refinement with a refined prompt
\* replaces the first text part.
ChatAnalyze ==
    /\ pc = "chat_analyze"
    /\ LET text_parts == TextPartsOf(request.contents)
           combined_text == Strip(Join(text_parts, <<" ">>))
           quality == _validate_message_quality(combined_text)
       IN  IF translator = "ready" /\ text_parts # <<>> /\ analysisEnabled
              /\ Len(combined_text) > 0
           THEN \E o \in (IF quality # QualityPassed THEN {NoOutcome} ELSE NetworkOutcomes) :
                   LET result == IF quality # QualityPassed THEN quality
                                 ELSE analyze_prompt_network(o)
                   IN  /\ analysis_result' = result
                       /\ networkOutcome' = o
                       /\ calls' = calls \cup {"analyze_prompt"}
                                     \cup (IF o # NoOutcome THEN {"analysis_call"} ELSE {})
                       /\ decidedBy' = "result"
                       /\ IF result.action = "direct_reply"
                          THEN /\ stop_processing' = TRUE
                               /\ pc' = "chat_translate"
                               /\ UNCHANGED request
                          ELSE /\ request' =
                                    IF result.action = "refined" /\ Truthy(result.refined_prompt)
                                    THEN [request EXCEPT !.contents =
                                            apply_refined_prompt(request.contents,
                                                                 result.refined_prompt)]
                                    ELSE request
                               /\ pc' = "chat_legacy"
                               /\ UNCHANGED stop_processing
           ELSE /\ pc' = "chat_legacy"
                /\ UNCHANGED <<analysis_result, networkOutcome, calls, decidedBy,
                               stop_processing, request>>
    /\ UNCHANGED <<harnessVars, entry, origRequest, analysisEnabled, credSource, translator, creds,
                   analyzer, task, taskResult, lateArrived, vertexRequest, upstream,
                   posts, out, exc>>

\* preprocess_request, Step 4: the legacy messages, decided on the text parts
\* as they were before any refinement.
ChatLegacy ==
    /\ pc = "chat_legacy"
    /\ LET text_parts == TextPartsOf(origRequest.contents)
           combined_text == Lower(Join(text_parts, <<" ">>))
           image_parts == {i \in 1..Len(origRequest.contents) :
                              IsImagePart(origRequest.contents[i])}
           generation ==
               IF text_parts # <<>> /\ Contains(combined_text, WordGenerate)
                  /\ Contains(combined_text, WordImage)
               THEN <<YieldedChunk("system", V2ResponseChunk("system",
                        V2SystemMessage("preprocessing",
                            <<"I'll generate an image for you. This will consume 2 credits.">>,
                            "confirm_generation"), FALSE))>>
               ELSE <<>>
           analysis ==
               IF text_parts # <<>> /\ Contains(combined_text, AnalyzeThis) /\ image_parts # {}
               THEN <<YieldedChunk("system", V2ResponseChunk("system",
                        V2SystemMessage("preprocessing",
                            <<"I'll analyze your image. This will consume 1 credit.">>,
                            "confirm_analysis"), FALSE))>>
               ELSE <<>>
       IN  out' = out \o generation \o analysis
    /\ pc' = "chat_translate"
    /\ UNCHANGED <<harnessVars, entry, stop_processing, request, origRequest, analysisEnabled, credSource,
                   translator, creds, analyzer, task, taskResult, analysis_result, decidedBy,
                   networkOutcome, lateArrived, vertexRequest, upstream, posts, calls, exc>>

\* Step 2: the request is translated (whatever preprocess_request set on it).
ChatTranslate ==
    /\ pc = "chat_translate"
    /\ vertexRequest' = v2_to_vertex(request)
    /\ pc' = "chat_token"
    /\ UNCHANGED <<harnessVars, entry, stop_processing, request, origRequest, analysisEnabled, credSource,
                   translator, creds, analyzer, task, taskResult, analysis_result, decidedBy,
                   networkOutcome, lateArrived, upstream, posts, out, calls, exc>>

\* Step 3: the endpoint and the token.
ChatGetToken ==
    /\ pc = "chat_token"
    /\ get_access_token("chat_post")
    /\ UNCHANGED <<harnessVars, entry, stop_processing, request, origRequest, analysisEnabled, credSource,
                   translator, analyzer, task, taskResult, analysis_result, decidedBy,
                   networkOutcome, lateArrived, vertexRequest, upstream, posts, out>>

\* Step 3: the POST.
ChatPost ==
    /\ pc = "chat_post"
    /\ client_post("chat_status")
    /\ UNCHANGED <<harnessVars, entry, stop_processing, request, origRequest, analysisEnabled, credSource,
                   translator, creds, analyzer, task, taskResult, analysis_result, decidedBy,
                   networkOutcome, lateArrived, vertexRequest, out>>

\* Mutant: on a non-success status the call is made again.
ChatNonSuccess_Retry ==
    /\ pc = "chat_status"
    /\ ~is_success(upstream)
    /\ pc' = "chat_post"
    /\ UNCHANGED <<harnessVars, entry, stop_processing, request, origRequest, analysisEnabled, credSource,
                   translator, creds, analyzer, task, taskResult, analysis_result, decidedBy,
                   networkOutcome, lateArrived, vertexRequest, upstream, posts, out, calls, exc>>

\* A non-success status: the error chunk, with the text of the upstream
\* response, is yielded and the generator returns.
ChatNonSuccess ==
    /\ pc = "chat_status"
    /\ ~is_success(upstream)
    /\ out' = Append(out, YieldedChunk("upstream_error",
                  V2ResponseChunk("error", <<"AI service error: ">> \o upstream.body, TRUE)))
    /\ pc' = "closed"
    /\ UNCHANGED <<harnessVars, entry, stop_processing, request, origRequest, analysisEnabled, credSource,
                   translator, creds, analyzer, task, taskResult, analysis_result, decidedBy,
                   networkOutcome, lateArrived, vertexRequest, upstream, posts, calls, exc>>

\* A success status: Step 4, the streaming of the response, begins.
ChatSuccess ==
    /\ pc = "chat_status"
    /\ is_success(upstream)
    /\ pc' = "chat_stream"
    /\ UNCHANGED <<harnessVars, entry, stop_processing, request, origRequest, analysisEnabled, credSource,
                   translator, creds, analyzer, task, taskResult, analysis_result, decidedBy,
                   networkOutcome, lateArrived, vertexRequest, upstream, posts, out, calls, exc>>

\* except Exception: the error chunk carries the text of the exception.
ChatExceptHandler ==
    /\ entry = "chat"
    /\ pc = "except"
    /\ out' = Append(out, YieldedChunk("error",
                  V2ResponseChunk("error", <<"Internal error: ", exc>>, TRUE)))
    /\ pc' = "closed"
    /\ UNCHANGED <<harnessVars, entry, stop_processing, request, origRequest, analysisEnabled, credSource,
                   translator, creds, analyzer, task, taskResult, analysis_result, decidedBy,
                   networkOutcome, lateArrived, vertexRequest, upstream, posts, calls, exc>>

\* A request arrives at /v2/chat.
InitChat ==
    /\ entry = "chat"
    /\ pc = "chat_start"
    /\ request \in PipelineRequests
    /\ origRequest = request
    /\ analysisEnabled \in BOOLEAN
    /\ Globals({"fresh", "stale"})
    /\ Idle

InitUpstream == InitChat \/ InitProxy

NextUpstream ==
    \/ Translate
    \/ SfvGetToken
    \/ SfvPost
    \/ SfvNonSuccess
    \/ SfvForward
    \/ SfvEnd
    \/ ExceptHandler
    \/ ChatGetTranslator
    \/ ChatValidate
    \/ ChatAnalyze
    \/ ChatLegacy
    \/ ChatTranslate
    \/ ChatGetToken
    \/ ChatPost
    \/ ChatNonSuccess
    \/ ChatSuccess
    \/ ChatExceptHandler

SpecUpstream == InitUpstream /\ [][NextUpstream]_vars

(***************************************************************************)
(* Properties of the enhanced orchestrator (checked under Spec).           *)
(***************************************************************************)
\* The frames after the first one.
Rest == SubSeq(out, 2, Len(out))

CountSrc(frames, src) == Cardinality({i \in 1..Len(frames) : frames[i].src = src})

IsTerminal(y) == y.frame.finishReason = "STOP"

\* A collaborator (credential cache, translator, upstream) failed.
CollaboratorFailed ==
    \/ exc \in {"CredentialError", "TransportError"}
    \/ upstream # NoResponse /\ ~is_success(upstream)

\* C1: the first frame of every response is the acknowledgment, and nothing
\* else has been touched before it is out: no get_translator(), no credential
\* load, no analysis task or analysis call, no token, no upstream call.
C1_AckFirst ==
    /\ out # <<>> => out[1] = Yielded("ack", format_immediate_response)
    /\ out = <<>> =>
          /\ calls = {}
          /\ task = "none"
          /\ posts = 0
          /\ translator = "none" => creds = NotLoaded

C1_Witness ==
    /\ out # <<>>
    /\ {"get_translator", "load_credentials", "create_task", "analysis_call"} \subseteq calls

\* C2: once the stream is closed, what follows the acknowledgment is exactly
\* one of: one direct reply, proxied upstream frames, one Error frame; at no
\* time are a direct reply and proxied content both in the output.
C2_ExactlyOne ==
    /\ ~(CountSrc(out, "direct") > 0 /\ CountSrc(out, "upstream") > 0)
    /\ pc = "closed" =>
          LET d == CountSrc(Rest, "direct")
              u == CountSrc(Rest, "upstream")
              e == CountSrc(Rest, "error") + CountSrc(Rest, "upstream_error")
          IN  \/ d = 1 /\ u = 0 /\ e = 0
              \/ d = 0 /\ u > 0 /\ e = 0
              \/ d = 0 /\ u = 0 /\ e = 1

C2_Witness ==
    /\ pc = "closed"
    /\ CountSrc(Rest, "direct") = 1
    /\ Len(out) = 2

\* C3 (as claimed): a pass-through or refine verdict with no collaborator
\* failing ends in a proxied stream: the request was translated, one upstream
\* call was made, and the response does not end in an Error frame.
C3_Claim ==
    (/\ pc = "closed"
     /\ analysis_result.action \in {"pass_through", "refined"}
     /\ ~CollaboratorFailed)
    => /\ vertexRequest # NoVertexRequest
       /\ posts = 1
       /\ out[Len(out)].src # "error"

\* C4: with a direct-reply verdict the response is the acknowledgment and one
\* terminal frame carrying the reply text; no upstream call is made, no token
\* is obtained and no request is translated.
C4_DirectReplyOnly ==
    (pc = "closed" /\ analysis_result.action = "direct_reply")
    => /\ Len(out) = 2
       /\ out[2].src = "direct"
       /\ out[2].frame.text = analysis_result.direct_reply
       /\ IsTerminal(out[2])
       /\ posts = 0
       /\ "get_access_token" \notin calls
       /\ vertexRequest = NoVertexRequest

C4_Witness ==
    /\ pc = "closed"
    /\ analysis_result.action = "direct_reply"
    /\ analysis_result.direct_reply = ReplyText

\* C5: the verdict is decided once.  Decided by the task's result, it is that
\* result and the task is done; decided by the timeout, it is the initial
\* pass-through and the task is cancelled.  While the orchestrator waits and
\* the task is not done the timeout can always end the wait.  After the
\* decision nothing changes the verdict, how it was decided or the request,
\* and a response that arrives late changes neither the output nor the
\* orchestrator's position.
C5_Decided ==
    /\ decidedBy = "result" => analysis_result = taskResult /\ task = "done"
    /\ decidedBy = "timeout" => analysis_result = DefaultResult /\ task = "cancelled"
    /\ decidedBy = "disabled" => analysis_result = DefaultResult /\ task = "none"
    /\ decidedBy = "none" => pc \in {"start", "init_translator", "step3", "wait_for",
                                    "except", "closed"}
    /\ decidedBy # "none" => pc \notin {"start", "init_translator", "step3", "wait_for"}
    /\ (pc = "wait_for" /\ task # "done") => ENABLED WaitForTimeout

C5_Stable ==
    /\ decidedBy # "none" =>
          /\ decidedBy' = decidedBy
          /\ analysis_result' = analysis_result
          /\ request' = request
    /\ lateArrived' # lateArrived => out' = out /\ pc' = pc /\ taskResult' = taskResult

C6_Claim ==
    (/\ pc = "closed"
     /\ decidedBy \in {"disabled", "timeout"}
     /\ ~CollaboratorFailed)
    => /\ analysis_result.action = "pass_through"
       /\ vertexRequest = v2_to_vertex(origRequest)

\* C7: a closed stream ends with a terminal frame; when an exception was
\* raised after the acknowledgment there is exactly one Error frame, it is
\* that last frame and it carries finishReason; before the handler has run
\* no Error frame is out.
C7_ErrorFrame ==
    /\ pc = "closed" => IsTerminal(out[Len(out)])
    /\ (pc = "closed" /\ exc # "none") =>
          /\ CountSrc(out, "error") = 1
          /\ out[Len(out)] = Yielded("error", format_text_chunk(ErrorMessage, TRUE, FALSE))
          /\ out[1].src = "ack"
    /\ (pc # "closed" /\ exc # "none") => pc = "except" /\ CountSrc(out, "error") = 0
    /\ exc = "none" => CountSrc(out, "error") = 0

C7_Witness ==
    /\ pc = "closed"
    /\ exc = "CredentialError"
    /\ Len(out) = 2

\* C8: a frame the orchestrator produced with finishReason is the last frame
\* and the stream is closed; the acknowledgment carries no finishReason; once
\* closed, the output and the position never change again.
C8_TerminalIsLast ==
    /\ \A i \in 1..Len(out) :
          (out[i].src \in {"direct", "error", "upstream_error"} /\ IsTerminal(out[i]))
          => i = Len(out) /\ pc = "closed"
    /\ \A i \in 1..Len(out) : out[i].src = "ack" => ~IsTerminal(out[i])
    /\ \A i \in 1..Len(out) : out[i].src \in {"direct", "error"} => IsTerminal(out[i])

C8_Absorbing == [](C8_TerminalIsLast) /\ [][pc = "closed" => (out' = out /\ pc' = pc)]_vars

C8_Witness ==
    /\ pc = "closed"
    /\ lateArrived
    /\ out[Len(out)].src = "error"

\* C10 (as claimed): a refine verdict with a non-empty refined prompt, got
\* before the timeout, sends upstream the translation of the request with the
\* refined prompt in place of the first part that has text.
C10_Claim ==
    (/\ pc = "closed"
     /\ decidedBy = "result"
     /\ analysis_result.action = "refined"
     /\ Truthy(analysis_result.refined_prompt)
     /\ ~CollaboratorFailed)
    => vertexRequest =
          v2_to_vertex([origRequest EXCEPT !.contents =
              apply_refined_prompt(origRequest.contents, analysis_result.refined_prompt)])

\* A message of at least 10 characters in which one letter, capitals counted
\* with their small letters, is more than 60% of the characters.
SpamAsClaimed(message) ==
    /\ message # None
    /\ Len(message) >= 10
    /\ \E c \in Letters :
          10 * Cardinality({i \in 1..Len(message) : LowerChar(message[i]) = c})
             > 6 * Len(message)

\* The message run_background_analysis hands to analyze_prompt.
MessageOf(req) == Strip(Join(TextPartsOf(req.contents), <<" ">>))

\* C12: for a message of at least 10 characters of which one letter is more
\* than 60%, no network analysis call is made, the analysis task (given an
\* analyzer) ends with the direct-reply verdict of the pre-filter, and when
\* that verdict decides the response, the response is the acknowledgment
\* followed by the terminal reply frame only.
C12_SpamDirectReply ==
    SpamAsClaimed(MessageOf(origRequest)) =>
        /\ "analysis_call" \notin calls
        /\ networkOutcome = NoOutcome
        /\ task # "awaiting"
        /\ (task = "done" /\ analyzer = "ready") =>
              taskResult = AnalysisResult("direct_reply", None, <<"U+1F44B">>,
                                          "Spam-like pattern detected")
        /\ (pc = "closed" /\ decidedBy = "result" /\ analyzer = "ready") =>
              /\ out = <<Yielded("ack", format_immediate_response),
                         Yielded("direct", format_text_chunk(<<"U+1F44B">>, TRUE, FALSE))>>
              /\ posts = 0

C12_Witness ==
    /\ SpamAsClaimed(MessageOf(origRequest))
    /\ Len(origRequest.contents) = 2
    /\ pc = "closed"
    /\ decidedBy = "result"
    /\ Len(out) = 2
    /\ out[2].src = "direct"

(***************************************************************************)
(* Properties of the upstream call (checked under SpecUpstream).           *)
(***************************************************************************)
\* A frame that tells the caller the response is over: is_final on a chunk of
\* /v2/chat, finishReason on a frame of /v2/echat.
IsFinalFrame(y) ==
    IF entry = "chat" THEN y.frame.is_final ELSE y.frame.finishReason = "STOP"

IsErrorFrame(y) == y.src \in {"error", "upstream_error"}

NonSuccessReturned == upstream # NoResponse /\ ~is_success(upstream)

\* C9: at most one upstream generation call is made per request; once the
\* call has returned a non-2xx status nothing is yielded but one Error frame,
\* which is terminal and the last frame of the response, and no frame
\* follows once the response has closed.
C9_State ==
    /\ posts <= 1
    /\ NonSuccessReturned =>
          /\ posts = 1
          /\ pc \in {"sfv_status", "chat_status", "closed"}
          /\ CountSrc(out, "upstream") = 0
          /\ pc # "closed" => \A i \in 1..Len(out) : ~IsErrorFrame(out[i]) /\ ~IsFinalFrame(out[i])
          /\ pc = "closed" =>
                /\ out # <<>>
                /\ out[Len(out)].src = "upstream_error"
                /\ IsFinalFrame(out[Len(out)])
                /\ \A i \in 1..(Len(out) - 1) : ~IsErrorFrame(out[i]) /\ ~IsFinalFrame(out[i])

C9_UpstreamError ==
    [](C9_State) /\ [][pc = "closed" => (out' = out /\ posts' = posts /\ pc' = pc)]_vars

C9_Witness ==
    /\ entry = "chat"
    /\ pc = "closed"
    /\ upstream.status = 503
    /\ posts = 1
    /\ Len(out) >= 2
    /\ out[Len(out)].src = "upstream_error"

\* The text an error frame carries: the content of a chunk of /v2/chat, the
\* text of a frame of /v2/echat.
ErrorText(y) == IF entry = "chat" THEN y.frame.content ELSE y.frame.text

\* C13 (as claimed): no Error frame carries the body of the upstream
\* response or the text of the exception that was raised.
C13_Claim ==
    \A i \in 1..Len(out) :
        IsErrorFrame(out[i]) =>
            /\ upstream.body # <<>> => ~Contains(ErrorText(out[i]), upstream.body)
            /\ exc # "none" => ~Contains(ErrorText(out[i]), <<exc>>)

\* C24: in the /v2/chat pipeline a direct_reply verdict stops the processing:
\* the upstream generation call is not made.
C24_Claim ==
    (entry = "chat" /\ stop_processing) => posts = 0

\* The validation warnings yielded so far.
ValidationWarnings ==
    {i \in 1..Len(out) : out[i].src = "system"
                            /\ out[i].frame.content.type = "validation_warning"}

\* The error chunks yielded so far.
ErrorChunks == {i \in 1..Len(out) : out[i].frame.type = "error"}

\* C33: a /v2/chat request whose content has validation issues is processed
\* all the same: the issues appear as one system chunk that is not final, the
\* pipeline goes on to the translation, the upstream call and the streaming,
\* and an error chunk appears only for an exception raised elsewhere or a
\* non-success answer of the upstream.
C33_NonFatal ==
    (entry = "chat" /\ ~validate_user_content(origRequest).valid) =>
        /\ Cardinality(ValidationWarnings) <= 1
        /\ \A i \in ValidationWarnings : ~out[i].frame.is_final
        /\ pc \in {"chat_analyze", "chat_legacy", "chat_translate", "chat_token",
                    "chat_post", "chat_status", "chat_stream"}
              => (Cardinality(ValidationWarnings) = 1 /\ ErrorChunks = {})
        /\ ErrorChunks # {} => (exc # "none" \/ (posts > 0 /\ ~is_success(upstream)))

\* A request with an issue got its warning, was translated and answered with
\* a success status: the streaming of the answer begins.
C33_Witness ==
    /\ entry = "chat"
    /\ ~validate_user_content(origRequest).valid
    /\ pc = "chat_stream"
    /\ Cardinality(ValidationWarnings) = 1
    /\ vertexRequest # NoVertexRequest
    /\ posts = 1

(***************************************************************************)
(* Functions applied on their own.  While one is applied no request is     *)
(* being served: the variables of the generators keep the values of        *)
(* NotServing.                                                             *)
(***************************************************************************)
authVars == <<handler, now, callers, running, authLog>>

progVars == <<entry, stop_processing, pc, request, origRequest, analysisEnabled, credSource,
              translator, creds, analyzer, task, taskResult, analysis_result, decidedBy,
              networkOutcome, lateArrived, vertexRequest, upstream, posts, out, calls, exc>>

NotServing ==
    /\ entry = "none"
    /\ pc = "none"
    /\ request = [contents |-> <<>>, language |-> "en"]
    /\ origRequest = request
    /\ analysisEnabled = TRUE
    /\ credSource = "ok"
    /\ translator = "none"
    /\ creds = NotLoaded
    /\ analyzer = "none"
    /\ task = "none"
    /\ taskResult = Unset
    /\ analysis_result = Unset
    /\ decidedBy = "none"
    /\ networkOutcome = NoOutcome
    /\ lateArrived = FALSE
    /\ stop_processing = FALSE
    /\ vertexRequest = NoVertexRequest
    /\ upstream = NoResponse
    /\ posts = 0
    /\ out = <<>>
    /\ calls = {}
    /\ exc = "none"

\* How a call ends: it returns a value or raises an exception of a class.
Returned(v) == [exc |-> "none", value |-> v]

Raised(cls) == [exc |-> cls, value |-> "none"]

\* The call has not ended yet.
Pending == [exc |-> "pending", value |-> "none"]

(***************************************************************************)
(* prompt_analyzer.py: analyze_prompt with its exceptions.                 *)
(***************************************************************************)
\* The classes "except Exception" catches; CancelledError is a BaseException
\* and is not among them.
ExceptionSubclasses ==
    {"Exception", "TimeoutError", "JSONDecodeError", "KeyError", "ValueError",
     "TypeError", "AttributeError"}

\* The classes _parse_analysis_response catches.
ParserCatches == {"JSONDecodeError", "KeyError", "ValueError"}

\* What can happen to the analysis call: NetworkOutcomes with the failed call
\* told apart (no token, transport failure, non-success status), a verdict
\* that is JSON but no object or has a field of the wrong type, and the
\* cancellation of the surrounding task by the caller.
FailureKinds ==
    {"timeout", "credential_error", "transport_error", "http_error", "malformed",
     "no_candidates", "not_object"}

AnalysisOutcomes ==
    {[kind |-> k, action |-> "absent", refined_prompt |-> None, direct_reply |-> None] :
        k \in FailureKinds \cup {"cancelled"}}
    \cup {o \in NetworkOutcomes : o.kind = "json"}

\* The try block of _parse_analysis_response.
TryParse(o) ==
    IF o.kind = "malformed" THEN Raised("JSONDecodeError")
    ELSE IF o.kind = "no_candidates" THEN Returned(PassThroughResult("Response parsing failed"))
    ELSE IF o.kind = "not_object" THEN Raised("AttributeError")
    ELSE LET action == IF o.action = "absent" THEN "pass_through" ELSE o.action
         IN  IF action \notin AnalysisActionValues THEN Raised("ValueError")
             ELSE Returned(AnalysisResult(action, o.refined_prompt,
                      IF action = "direct_reply" /\ Truthy(o.direct_reply)
                      THEN _enhance_direct_reply(o.direct_reply) ELSE o.direct_reply,
                      "parsed"))

\* _parse_analysis_response with its except clause.
ParseOutcome(o) ==
    IF TryParse(o).exc \in ParserCatches
    THEN Returned(PassThroughResult("Parse error"))
    ELSE TryParse(o)

\* _perform_analysis: the token, the POST, the status check and the parse.
\* A timeout or a cancellation ends it with the exception thrown into it.
PerformOutcome(o) ==
    IF o.kind = "timeout" THEN Raised("TimeoutError")
    ELSE IF o.kind = "cancelled" THEN Raised("CancelledError")
    ELSE IF o.kind \in {"credential_error", "transport_error", "http_error"}
    THEN Raised("Exception")
    ELSE ParseOutcome(o)

\* Mutant: the handlers of analyze_prompt catch the timeout only.
AnalyzeHandlers_TimeoutOnly(r) ==
    IF r.exc = "TimeoutError"
    THEN Returned(PassThroughResult("Analysis timed out for responsiveness"))
    ELSE r

\* The except clauses of analyze_prompt, applied to how its try block ended.
AnalyzeHandlers(r) ==
    IF r.exc = "TimeoutError"
    THEN Returned(PassThroughResult("Analysis timed out for responsiveness"))
    ELSE IF r.exc \in ExceptionSubclasses
    THEN Returned(PassThroughResult("Analysis error"))
    ELSE r

\* analyze_prompt: how the call ends and whether _perform_analysis was started.
analyze_prompt(user_message, o) ==
    LET quality == _validate_message_quality(user_message)
    IN  IF quality # QualityPassed
        THEN [ended |-> Returned(quality), performed |-> FALSE]
        ELSE [ended |-> AnalyzeHandlers(PerformOutcome(o)), performed |-> TRUE]

\* The messages analyze_prompt is given: none, empty, blank, short, padded,
\* one letter repeated, and ten-character messages in which the letter "a"
\* is 70% and 60% of the characters, with other letters, capitals or digits
\* for the rest, a message without letters, and a message of digits with
\* one letter.
Messages ==
    {None, <<>>, <<" ", " ">>, Hi, PaddedHi, Spam,
     <<"a", "a", "a", "a", "a", "a", "a", "b", "c", "d">>,
     <<"a", "a", "a", "a", "a", "a", "b", "c", "d", "e">>,
     <<"A", "A", "A", "A", "a", "a", "a", "b", "c", "d">>,
     <<"a", "a", "a", "a", "a", "a", "a", "1", "2", "3">>,
     <<"a", "a", "a", "a", "a", "a", "1", "2", "3", "4">>,
     <<"a", "b", "1", "2", "3", "4", "5", "6", "7", "8">>,
     <<"1", "2", "3", "4", "5", "6", "7", "8", "9", "0">>,
     <<"a", "1", "2", "3", "4", "5", "6", "7", "8", "9">>,
     <<"a", "a", "a", "a", "a", "a", "a", " ", " ", " ">>}

InitAnalyzer ==
    /\ NotServing
    /\ handler = NoHandler /\ now = 0 /\ callers = <<>> /\ running = 0 /\ authLog = NoAuthLog
    /\ call \in {[fn |-> "analyze_prompt", user_message |-> m, outcome |-> o,
                  ended |-> Pending, performed |-> FALSE] :
                    m \in Messages, o \in AnalysisOutcomes}

\* analyze_prompt is called and ends.
AnalyzePrompt ==
    /\ call.fn = "analyze_prompt"
    /\ call.ended = Pending
    /\ LET r == analyze_prompt(call.user_message, call.outcome)
       IN  call' = [call EXCEPT !.ended = r.ended, !.performed = r.performed]
    /\ UNCHANGED <<progVars, authVars>>

NextAnalyzer == AnalyzePrompt

SpecAnalyzer == InitAnalyzer /\ [][NextAnalyzer]_vars

(***************************************************************************)
(* Properties of the analyzer (checked under SpecAnalyzer).                *)
(***************************************************************************)
\* The reasoning analyze_prompt records for each kind of failure.
FailureReasoning(kind) ==
    CASE kind = "timeout" -> "Analysis timed out for responsiveness"
      [] kind \in {"credential_error", "transport_error", "http_error", "not_object"} ->
            "Analysis error"
      [] kind = "malformed" -> "Parse error"
      [] kind = "no_candidates" -> "Response parsing failed"

\* C11: analyze_prompt raises nothing to its caller but the cancellation the
\* caller itself asked for; every internal failure (no token, transport
\* failure, non-success status, malformed JSON, a verdict that is no object,
\* an action outside the enum, timeout) ends in a pass-through verdict whose
\* reasoning names the failure.
C11_NeverRaises ==
    (call.fn = "analyze_prompt" /\ call.ended # Pending) =>
        /\ call.ended.exc # "none" =>
              call.ended.exc = "CancelledError" /\ call.outcome.kind = "cancelled"
        /\ (call.performed /\ call.outcome.kind \in FailureKinds) =>
              /\ call.ended.exc = "none"
              /\ call.ended.value = PassThroughResult(FailureReasoning(call.outcome.kind))
        /\ (call.performed /\ call.outcome.kind = "json"
            /\ call.outcome.action \notin AnalysisActionValues \cup {"absent"}) =>
              call.ended = Returned(PassThroughResult("Parse error"))
        /\ (call.performed /\ call.outcome \in NetworkOutcomes) =>
              call.ended = Returned(analyze_prompt_network(call.outcome))

C11_Witness ==
    /\ call.fn = "analyze_prompt"
    /\ call.performed
    /\ call.outcome.kind = "http_error"
    /\ call.ended = Returned(PassThroughResult("Analysis error"))

\* C25: the analyzer never yields a DirectReply or Refine verdict whose
\* payload text is absent: a response that lacks the text its action needs
\* gives PassThrough.
C25_Claim ==
    (call.fn = "analyze_prompt" /\ call.ended.exc = "none") =>
        LET result == call.ended.value
        IN  /\ result.action = "direct_reply" => Truthy(result.direct_reply)
            /\ result.action = "refined" => Truthy(result.refined_prompt)

\* The filler replies of the pre-filter for no message and an empty one.
FillerReplies == {<<"U+1F60D">>, <<"U+1F44C U+1F3FB">>}

IsEmptyInput(message) == message = None \/ Strip(message) = <<>>

Dominates(c, message) ==
    10 * Cardinality({i \in 1..Len(message) : LowerChar(message[i]) = c}) > 6 * Len(message)

\* C37: the pre-filter answers "spam-like" only for a message of at least 10
\* characters after trimming in which one letter, in either case, is more
\* than 60% of all the characters: a message of digits, blanks or
\* punctuation with few letters is not spam-like.
C37_Claim ==
    (/\ call.fn = "analyze_prompt"
     /\ call.ended # Pending
     /\ call.ended.exc = "none"
     /\ call.ended.value.reasoning = "Spam-like pattern detected") =>
        /\ Len(Strip(call.user_message)) >= 10
        /\ \E c \in Letters : Dominates(c, Strip(call.user_message))

(***************************************************************************)
(* auth_handler.py: one AuthenticationHandler and the coroutines that call *)
(* it.  get_access_token and get_project_id are plain functions without    *)
(* an await, called from coroutines of the one event loop thread: a call   *)
(* runs to its end before another coroutine runs.  Time passes meanwhile   *)
(* (loading and refreshing are blocking I/O).                              *)
(***************************************************************************)
\* buffer = timedelta(minutes=1)
RefreshBuffer == 1

Callers == 1..MaxCallers

\* credentials.valid of the library: there is a token and it has not expired,
\* where the library counts a token as expired skew minutes before its expiry.
Valid(h, t) ==
    /\ h.token # <<>>
    /\ ~(h.expiry # <<>> /\ t >= h.expiry[1] - h.skew)

\* Mutant: no safety margin before the expiry.
_is_token_expired_or_expiring_soon_NoBuffer(h, t) ==
    IF h.expiry = <<>> THEN TRUE
    ELSE t >= h.expiry[1]

_is_token_expired_or_expiring_soon(h, t) ==
    IF h.expiry = <<>> THEN TRUE
    ELSE t >= h.expiry[1] - RefreshBuffer

\* The condition of get_access_token for refreshing.
NeedsRefresh(h, t) == ~Valid(h, t) \/ _is_token_expired_or_expiring_soon(h, t)

\* A coroutine that is not in a call; refreshed: its call decided to refresh.
IdleCaller == [op |-> "none", pc |-> "idle", refreshed |-> FALSE, result |-> <<>>]

\* What _load_credentials can do: set the credentials and a project id, set
\* the credentials without a project id, set the credentials and then fail
\* to read the project id (key file branch), or fail.
LoadOutcomes == {"projA", "projB", "no_project", "partial", "fail"}

\* The handler after _load_credentials with the given outcome.
Loaded(h, outcome) ==
    IF outcome = "fail" THEN h
    ELSE [h EXCEPT !.loaded = TRUE,
                   !.project_id = IF outcome \in {"projA", "projB"} THEN outcome ELSE @]

LoadRaises(outcome) == outcome \in {"partial", "fail"}

\* The history after a call of _load_credentials.
LoadLogged(log, outcome) ==
    [log EXCEPT !.reloaded = @ \/ log.loadedOk,
                !.loadedOk = @ \/ ~LoadRaises(outcome),
                !.firstProject = IF ~log.loadedOk /\ ~LoadRaises(outcome)
                                 THEN (IF outcome = "no_project" THEN "None" ELSE outcome)
                                 ELSE @]

InitAuth ==
    /\ NotServing
    /\ call = NoCall
    /\ handler \in {[NoHandler EXCEPT !.skew = k] : k \in {0, 2}}
    /\ now = 0
    /\ callers = [c \in Callers |-> IdleCaller]
    /\ running = 0
    /\ authLog = NoAuthLog

\* Minutes pass.
Tick ==
    /\ now < MaxTime
    /\ now' = now + 1
    /\ UNCHANGED <<progVars, call, handler, callers, running, authLog>>

\* Mutant: a call starts while another call is running.
EnterGetAccessToken_Interleaved(c) ==
    /\ callers[c].pc \in {"idle", "returned", "raised"}
    /\ running' = c
    /\ callers' = [callers EXCEPT ![c] = [IdleCaller EXCEPT !.op = "get_access_token",
                                                            !.pc = "start"]]
    /\ UNCHANGED <<progVars, call, handler, now, authLog>>

\* A coroutine calls get_access_token: the event loop thread runs it.
EnterGetAccessToken(c) ==
    /\ running = 0
    /\ callers[c].pc \in {"idle", "returned", "raised"}
    /\ running' = c
    /\ callers' = [callers EXCEPT ![c] = [IdleCaller EXCEPT !.op = "get_access_token",
                                                            !.pc = "start"]]
    /\ UNCHANGED <<progVars, call, handler, now, authLog>>

\* "if not self._credentials: self._load_credentials()"
LoadForToken(c) ==
    /\ callers[c].pc = "start"
    /\ IF handler.loaded
       THEN /\ callers' = [callers EXCEPT ![c].pc = "check"]
            /\ UNCHANGED <<handler, authLog, running>>
       ELSE \E outcome \in LoadOutcomes :
               /\ handler' = Loaded(handler, outcome)
               /\ authLog' = LoadLogged(authLog, outcome)
               /\ IF LoadRaises(outcome)
                  THEN /\ callers' = [callers EXCEPT ![c].pc = "raised",
                                                     ![c].result = <<"LoadError">>]
                       /\ running' = 0
                  ELSE /\ callers' = [callers EXCEPT ![c].pc = "check"]
                       /\ UNCHANGED running
    /\ UNCHANGED <<progVars, call, now>>

\* "if not self._credentials.valid or self._is_token_expired_or_expiring_soon()"
\* A fresh token is returned as it is; otherwise the refresh starts.
CheckToken(c) ==
    /\ callers[c].pc = "check"
    /\ IF NeedsRefresh(handler, now)
       THEN /\ callers' = [callers EXCEPT ![c].pc = "refresh", ![c].refreshed = TRUE]
            /\ UNCHANGED running
       ELSE /\ callers' = [callers EXCEPT ![c].pc = "returned", ![c].result = handler.token]
            /\ running' = 0
    /\ UNCHANGED <<progVars, call, handler, now, authLog>>

\* Mutant: a failed refresh leaves credentials that look fresh.
RefreshFailed_Cached(h, t) == [h EXCEPT !.token = <<t>>, !.expiry = <<t + TokenLifetime>>]

\* The credentials after a refresh that raised: as they were.
RefreshFailed(h, t) == h

\* credentials.refresh(request) ends: it sets a new token and its expiry, or
\* it raises; then "if not self._credentials.token" and the return.
RefreshEnds(c) ==
    /\ callers[c].pc = "refresh"
    /\ \/ /\ handler' = [handler EXCEPT !.token = <<now>>, !.expiry = <<now + TokenLifetime>>]
          /\ authLog' = [authLog EXCEPT !.refreshFailed = FALSE]
          /\ callers' = [callers EXCEPT ![c].pc = "returned", ![c].result = <<now>>]
       \/ /\ handler' = RefreshFailed(handler, now)
          /\ authLog' = [authLog EXCEPT !.refreshFailed = TRUE]
          /\ callers' = [callers EXCEPT ![c].pc = "raised", ![c].result = <<"RefreshError">>]
    /\ running' = 0
    /\ UNCHANGED <<progVars, call, now>>

\* Mutant: get_project_id loads whenever it has no project id.
get_project_id_needs_load_Always(h) == h.project_id = "None"

\* "if not self.project_id: if not self._credentials:"
get_project_id_needs_load(h) == h.project_id = "None" /\ ~h.loaded

\* A coroutine calls get_project_id.
GetProjectId(c) ==
    /\ running = 0
    /\ callers[c].pc \in {"idle", "returned", "raised"}
    /\ IF get_project_id_needs_load(handler)
       THEN \E outcome \in LoadOutcomes :
               /\ handler' = Loaded(handler, outcome)
               /\ authLog' = LoadLogged(authLog, outcome)
               /\ callers' = [callers EXCEPT ![c] =
                     [IdleCaller EXCEPT
                        !.op = "get_project_id",
                        !.pc = IF LoadRaises(outcome) THEN "raised" ELSE "returned",
                        !.result = IF LoadRaises(outcome) THEN <<"LoadError">>
                                   ELSE <<Loaded(handler, outcome).project_id>>]]
       ELSE /\ callers' = [callers EXCEPT ![c] =
                     [IdleCaller EXCEPT !.op = "get_project_id", !.pc = "returned",
                                        !.result = <<handler.project_id>>]]
            /\ UNCHANGED <<handler, authLog>>
    /\ UNCHANGED <<progVars, call, now, running>>

NextAuth ==
    \/ Tick
    \/ \E c \in Callers : EnterGetAccessToken(c)
    \/ \E c \in Callers : LoadForToken(c)
    \/ \E c \in Callers : CheckToken(c)
    \/ \E c \in Callers : RefreshEnds(c)
    \/ \E c \in Callers : GetProjectId(c)

SpecAuth == InitAuth /\ [][NextAuth]_vars

(***************************************************************************)
(* Claims about the authentication handler, checked under SpecAuth.        *)
(***************************************************************************)
TokenCall(c) == callers[c].op = "get_access_token"

\* The step in which caller c decides between the cached token and a refresh.
Decides(c) == callers[c].pc = "check" /\ callers'[c].pc # "check"

Refreshing == {c \in Callers : callers[c].pc = "refresh"}

\* C15: no two refreshes of the handler are in progress at the same time,
\* and a refresh is in progress only while the credential is stale: the
\* calls of several callers refresh one after the other.
C15_RefreshSerialized ==
    /\ Cardinality(Refreshing) <= 1
    /\ Refreshing # {} => NeedsRefresh(handler, now)

\* Two callers asked for the token the same minute: one refreshed, the other
\* returned the token of that refresh without refreshing.
C15_Witness ==
    \E c, d \in Callers :
        /\ c # d
        /\ TokenCall(c) /\ callers[c].pc = "returned" /\ callers[c].refreshed
        /\ TokenCall(d) /\ callers[d].pc = "returned" /\ ~callers[d].refreshed
        /\ callers[c].result = <<now>>
        /\ callers[d].result = <<now>>

\* The step in which the refresh of caller c raises.
RefreshRaises(c) == callers[c].pc = "refresh" /\ callers'[c].pc = "raised"

\* C16: a refresh that fails makes get_access_token raise without a token,
\* leaves the credential as stale as it was, and the next call that decides
\* starts the refresh again.
C16_FailureNotCached ==
    [][\A c \in Callers :
         /\ RefreshRaises(c) =>
               /\ callers'[c].result = <<"RefreshError">>
               /\ handler' = handler
               /\ NeedsRefresh(handler', now')
         /\ (authLog.refreshFailed /\ Decides(c)) => callers'[c].pc = "refresh"]_vars

\* After a failed refresh, a later call refreshed and returned a token.
C16_Witness ==
    \E c, d \in Callers :
        /\ c # d
        /\ TokenCall(c) /\ callers[c].pc = "raised" /\ callers[c].result = <<"RefreshError">>
        /\ TokenCall(d) /\ callers[d].pc = "returned" /\ callers[d].refreshed
        /\ callers[d].result = handler.token
        /\ ~authLog.refreshFailed

\* C17: once a load has succeeded, the credentials are not loaded again, and
\* every get_project_id returns the project id of that load.
C17_LoadedOnce ==
    authLog.loadedOk =>
        /\ ~authLog.reloaded
        /\ handler.project_id = authLog.firstProject
        /\ \A c \in Callers :
              (callers[c].op = "get_project_id" /\ callers[c].pc = "returned")
                 => callers[c].result = <<authLog.firstProject>>

\* After a load by get_access_token, two callers asked for the project id.
C17_Witness ==
    \E c, d \in Callers :
        /\ c # d
        /\ authLog.loadedOk
        /\ handler.token # <<>>
        /\ callers[c].op = "get_project_id" /\ callers[c].pc = "returned"
        /\ callers[d].op = "get_project_id" /\ callers[d].pc = "returned"
        /\ callers[c].result = callers[d].result

(***************************************************************************)
(* v2_translator.py: v2_to_vertex applied to a request on its own.         *)
(***************************************************************************)
Hello == <<"H", "e", "l", "l", "o">>
ImageJpeg == <<"i", "m", "a", "g", "e", "/", "j", "p", "e", "g">>

\* The content parts of the requests translated: those of PartSet, a plain
\* text, an image whose data carries no data URL prefix and a part of an
\* unsupported type without data.
TranslatorPartSet ==
    PartSet \cup {TextPart(Hello), InlinePart(ImageJpeg, Payload), InlinePart(AppPdf, <<>>)}

\* Request languages: the default, one of the phrase table, one that is not
\* in the table, the empty string and None.
Languages == {"en", "fr", "xx", "", "None"}

TranslatorRequests ==
    [contents : UNION {[1..n -> TranslatorPartSet] : n \in 1..MaxParts}, language : Languages]

InitTranslate ==
    /\ NotServing
    /\ handler = NoHandler /\ now = 0 /\ callers = <<>> /\ running = 0 /\ authLog = NoAuthLog
    /\ call \in {[fn |-> "v2_to_vertex", request |-> r, ended |-> Pending] :
                    r \in TranslatorRequests}

\* v2_to_vertex is called and returns the VertexRequest.
V2ToVertex ==
    /\ call.fn = "v2_to_vertex"
    /\ call.ended = Pending
    /\ call' = [call EXCEPT !.ended = Returned(v2_to_vertex(call.request))]
    /\ UNCHANGED <<progVars, authVars>>

NextTranslate == V2ToVertex

SpecTranslate == InitTranslate /\ [][NextTranslate]_vars

(***************************************************************************)
(* Claims about the translation, checked under SpecTranslate.              *)
(***************************************************************************)
Translated == call.fn = "v2_to_vertex" /\ call.ended.exc = "none"

\* The phrase the request's language stands for in the table, if any.
HasPhrase(language) == language \in {"zh", "es", "fr", "ja"}

\* The base64 payload of inline data: what follows the first comma, or all
\* of it when there is no comma.
PayloadOf(data) ==
    IF \E i \in 1..Len(data) : data[i] = ","
    THEN LET i == CHOOSE i \in 1..Len(data) :
                     data[i] = "," /\ \A j \in 1..(i - 1) : data[j] # ","
         IN  SubSeq(data, i + 1, Len(data))
    ELSE data

IsTextInput(part) == part.text # None /\ Strip(part.text) # <<>>

IsImageInput(part) ==
    /\ part.text = None
    /\ part.inlineData # NoData
    /\ StartsWith(part.inlineData.mimeType, ImagePrefix)
    /\ part.inlineData.data # <<>>

\* A request of one text part followed by one image part.
TextThenImage(req) ==
    /\ Len(req.contents) = 2
    /\ IsTextInput(req.contents[1])
    /\ IsImageInput(req.contents[2])

\* C18: a request of one text part and one image part becomes exactly one
\* turn of role "user" whose parts end with the text part followed by an
\* inline-data part of the same MIME type and the same base64 payload,
\* without the data URL prefix; only a language instruction precedes them.
C18_TextThenImage ==
    (Translated /\ TextThenImage(call.request)) =>
        LET turns == call.ended.value
            text == call.request.contents[1].text
            image == call.request.contents[2].inlineData
        IN  /\ Len(turns) = 1
            /\ turns[1].role = "user"
            /\ LET parts == turns[1].parts
                   n == Len(parts)
               IN  /\ n = IF HasPhrase(call.request.language) THEN 3 ELSE 2
                   /\ parts[n - 1].text = Strip(text)
                   /\ parts[n - 1].inlineData = NoData
                   /\ parts[n].text = None
                   /\ parts[n].inlineData.mimeType = image.mimeType
                   /\ parts[n].inlineData.data = PayloadOf(image.data)
                   /\ ~Contains(parts[n].inlineData.data, <<",">>)

\* A padded text and an image sent as a data URL were translated.
C18_Witness ==
    /\ Translated
    /\ TextThenImage(call.request)
    /\ call.request.contents[1].text = PaddedHi
    /\ call.request.contents[2].inlineData.data = DataUrl
    /\ call.ended.value[1].parts[2].inlineData.data = Payload

\* What an input part may become: its stripped text, its inline data without
\* the prefix, or the placeholder text of an unsupported type.
ComesFrom(outPart, inPart) ==
    IF Truthy(inPart.text)
    THEN outPart = TextPart(Strip(inPart.text)) /\ Strip(inPart.text) # <<>>
    ELSE /\ inPart.inlineData # NoData
         /\ inPart.inlineData.data # <<>>
         /\ \/ outPart = InlinePart(inPart.inlineData.mimeType, PayloadOf(inPart.inlineData.data))
            \/ /\ outPart.inlineData = NoData
               /\ Contains(outPart.text, inPart.inlineData.mimeType)
               /\ ~StartsWith(inPart.inlineData.mimeType, ImagePrefix)

\* An input part without content: blank text, no data, or neither field.
Skippable(inPart) ==
    IF Truthy(inPart.text) THEN Strip(inPart.text) = <<>>
    ELSE inPart.inlineData = NoData \/ inPart.inlineData.data = <<>>

\* The output parts are the translations of the input parts that have
\* content, in the order of the input.
InOriginalOrder(outParts, contents) ==
    \E f \in [1..Len(outParts) -> 1..Len(contents)] :
        /\ \A i, j \in 1..Len(outParts) : i < j => f[i] < f[j]
        /\ \A i \in 1..Len(outParts) : ComesFrom(outParts[i], contents[f[i]])
        /\ \A k \in 1..Len(contents) :
              (\A i \in 1..Len(outParts) : f[i] # k) => Skippable(contents[k])

\* C19: v2_to_vertex gives one turn of role "user"; its parts are the
\* translated input parts in their original order, preceded by the language
\* instruction exactly when the language is not the default and is in the
\* phrase table; any other language adds nothing and the call returns.
C19_SingleUserTurn ==
    (call.fn = "v2_to_vertex" /\ call.ended # Pending) =>
        /\ call.ended.exc = "none"
        /\ LET turns == call.ended.value
               language == call.request.language
           IN  /\ Len(turns) = 1
               /\ turns[1].role = "user"
               /\ IF language # "en" /\ HasPhrase(language)
                  THEN /\ turns[1].parts # <<>>
                       /\ Head(turns[1].parts) = TextPart(LanguageInstructions[language])
                       /\ InOriginalOrder(Tail(turns[1].parts), call.request.contents)
                  ELSE InOriginalOrder(turns[1].parts, call.request.contents)

\* Language "fr" with the text "Hello" gave the French phrase and "Hello".
C19_Witness ==
    /\ Translated
    /\ call.request = [contents |-> <<TextPart(Hello)>>, language |-> "fr"]
    /\ call.ended.value[1].parts = <<TextPart(LanguageInstructions["fr"]), TextPart(Hello)>>

\* A language that is not in the phrase table added no instruction.
C19_UnknownLanguage ==
    /\ Translated
    /\ call.request = [contents |-> <<TextPart(Hello)>>, language |-> "xx"]
    /\ call.ended.value[1].parts = <<TextPart(Hello)>>

\* An inline-data part whose MIME type is neither image/* nor audio/*.
Unsupported(part) ==
    /\ ~Truthy(part.text)
    /\ part.inlineData # NoData
    /\ ~StartsWith(part.inlineData.mimeType, ImagePrefix)
    /\ ~StartsWith(part.inlineData.mimeType, AudioPrefix)

Placeholder(part) ==
    TextPart(<<"[Unsupported content type: ">> \o part.inlineData.mimeType \o <<"]">>)

\* The number of parts the turn starts with before those of the request.
InstructionParts(language) == IF HasPhrase(language) THEN 1 ELSE 0

\* C30 as stated: every inline-data part of an unsupported type appears in
\* the turn as a placeholder text at the position of the original part,
\* none is dropped.
C30_Claim ==
    Translated =>
        LET contents == call.request.contents
            parts == call.ended.value[1].parts
        IN  \A k \in 1..Len(contents) :
               Unsupported(contents[k]) =>
                  LET pos == InstructionParts(call.request.language) + 1
                             + Cardinality({j \in 1..(k - 1) :
                                   Unsupported(contents[j]) \/ ~Skippable(contents[j])})
                  IN  pos <= Len(parts) /\ parts[pos] = Placeholder(contents[k])

\* C30, amended: every inline-data part of an unsupported type that carries
\* data appears in the turn as a placeholder text at the position of the
\* original part among the parts that are kept.
C30_PlaceholderInPlace ==
    Translated =>
        LET contents == call.request.contents
            parts == call.ended.value[1].parts
        IN  \A k \in 1..Len(contents) :
               (Unsupported(contents[k]) /\ contents[k].inlineData.data # <<>>) =>
                  LET pos == InstructionParts(call.request.language) + 1
                             + Cardinality({j \in 1..(k - 1) : ~Skippable(contents[j])})
                  IN  pos <= Len(parts) /\ parts[pos] = Placeholder(contents[k])

\* A text followed by a part of an unsupported type gave the text followed
\* by the placeholder.
C30_Witness ==
    /\ Translated
    /\ call.request.contents = <<TextPart(Hello), InlinePart(AppPdf, Payload)>>
    /\ call.ended.value[1].parts[Len(call.ended.value[1].parts)]
          = Placeholder(InlinePart(AppPdf, Payload))

(***************************************************************************)
(* v2_api.py stream_vertex_response and v2_translator.py                   *)
(* vertex_to_v2_stream: the proxying of one upstream stream.  The wire is  *)
(* a text of lexical units: "data:", a line feed, and the units of a       *)
(* line's JSON (one unit per part of the candidate's content).             *)
(***************************************************************************)
LF == <<"\n">>
DataUnit == <<"data:">>
ImageUnit == <<"<image>">>

\* Texts of upstream parts.
TextHello == <<"h", "e", "l", "l", "o">>
TextPassword == <<"p", "a", "s", "s", "w", "o", "r", "d">>
TextExplain == <<"C", "a", "n", " ", "y", "o", "u", " ", "e", "x", "p", "l", "a", "i", "n", " ", "t", "h", "e", " ", "p", "a", "s", "s", "w", "o", "r", "d">>
TextICanHelp == <<"I", " ", "c", "a", "n", " ", "h", "e", "l", "p">>

TextUnits == {TextHello, TextPassword, TextExplain, TextICanHelp}

\* A payload that json.loads accepts and that is not an object.
NullUnit == <<"null">>

MalformedLine == <<DataUnit, <<"{bad">>>>

\* The lines of the upstream stream: events of one text part, an event of a
\* text part and an image part, a line that is not JSON, the [DONE] line and
\* a comment line.
LineSet ==
    {<<DataUnit, t>> : t \in TextUnits \ {TextHello}}
    \cup {<<DataUnit, TextHello, ImageUnit>>,
          MalformedLine, <<DataUnit, <<"[DONE]">>>>, <<<<": ping">>>>}

\* The text of a stream of lines; the last line may lack its line feed.
WireText(lines, terminated) ==
    Join(lines, <<LF>>) \o (IF terminated THEN <<LF>> ELSE <<>>)

\* response.aiter_text(): the text cut into pieces at the given positions.
RECURSIVE Pieces(_, _)
Pieces(text, cuts) ==
    IF cuts = {} THEN <<text>>
    ELSE LET c == CHOOSE x \in cuts : \A y \in cuts : x <= y
         IN  <<SubSeq(text, 1, c)>>
             \o Pieces(SubSeq(text, c + 1, Len(text)), {y - c : y \in cuts \ {c}})

\* Two longer streams: a line that is not JSON, and a line whose payload is
\* null, each between two events.
LongStreams ==
    {<<<<DataUnit, TextHello, ImageUnit>>, MalformedLine, <<DataUnit, TextICanHelp>>>>,
     <<<<DataUnit, TextHello>>, <<DataUnit, NullUnit>>, <<DataUnit, TextICanHelp>>>>}

Wires ==
    UNION {{Pieces(WireText(lines, terminated), cuts) :
                cuts \in {k \in SUBSET (1..(Len(WireText(lines, terminated)) - 1)) :
                             Cardinality(k) < MaxChunks}} :
           lines \in UNION {[1..n -> LineSet] : n \in 1..MaxLines} \cup LongStreams,
           terminated \in BOOLEAN}

\* request.preprocessing as stream_v2_response reads it: the three options,
\* each false when the request leaves it out.
Preprocessing(filter_content, modify_responses, inject_system) ==
    [filter_content |-> filter_content, modify_responses |-> modify_responses,
     inject_system |-> inject_system]

\* Mutant: the request's own settings, whatever they are.
intercept_config_AsRequested(preprocessing) ==
    [filter_content |-> preprocessing.filter_content,
     modify_responses |-> preprocessing.modify_responses,
     inject_system_messages |-> preprocessing.inject_system]

\* The interception settings stream_v2_response passes on: the request's
\* own, or content filtering alone when the request sets none.
intercept_config(preprocessing) ==
    IF ~(preprocessing.filter_content \/ preprocessing.modify_responses
         \/ preprocessing.inject_system)
    THEN [filter_content |-> TRUE, modify_responses |-> FALSE,
          inject_system_messages |-> FALSE]
    ELSE [filter_content |-> preprocessing.filter_content,
          modify_responses |-> preprocessing.modify_responses,
          inject_system_messages |-> preprocessing.inject_system]

\* The options of the requests whose streams are proxied.
StreamOptions ==
    {Preprocessing(FALSE, FALSE, FALSE), Preprocessing(FALSE, TRUE, TRUE),
     Preprocessing(TRUE, TRUE, TRUE)}

\* What stream_vertex_response yields for one part of an event.
TextItem(t) == [type |-> "text", data |-> t]
ImageItem == [type |-> "image", data |-> Payload]

\* The parts of a "data:" line: none for an empty line, [DONE] or a line
\* that json.loads rejects.
DecodeLine(line) ==
    IF line = <<>> \/ Head(line) # DataUnit THEN <<>>
    ELSE LET json_str == Tail(line)
         IN  IF json_str = <<>> \/ json_str = <<<<"[DONE]">>>> THEN <<>>
             ELSE IF \E i \in 1..Len(json_str) : json_str[i] \notin TextUnits \cup {ImageUnit}
             THEN <<>>
             ELSE [i \in 1..Len(json_str) |->
                     IF json_str[i] = ImageUnit THEN ImageItem ELSE TextItem(json_str[i])]

\* Mutant: a line that is not JSON raises as well.
DecodeRaises_Malformed(line) ==
    /\ line # <<>>
    /\ Head(line) = DataUnit
    /\ Tail(line) \in {<<NullUnit>>, Tail(MalformedLine)}

\* data.get(...) on a payload that is not an object raises AttributeError,
\* which the "except json.JSONDecodeError" does not catch.
DecodeRaises(line) ==
    /\ line # <<>>
    /\ Head(line) = DataUnit
    /\ Tail(line) = <<NullUnit>>

\* The lines handled before the first one that raises; all of them when none
\* does.
RECURSIVE UntilRaise(_)
UntilRaise(lines) ==
    IF lines = <<>> \/ DecodeRaises(Head(lines)) THEN <<>>
    ELSE <<Head(lines)>> \o UntilRaise(Tail(lines))

RECURSIVE DecodeLines(_)
DecodeLines(lines) ==
    IF lines = <<>> THEN <<>>
    ELSE DecodeLine(Head(lines)) \o DecodeLines(Tail(lines))

\* lines.pop(): all but the last element.
Front(q) == SubSeq(q, 1, Len(q) - 1)

RECURSIVE Reversed(_)
Reversed(q) == IF q = <<>> THEN <<>> ELSE Append(Reversed(Tail(q)), Head(q))

\* Mutant: the lines of one piece are handled newest first.
CompleteLines_NewestFirst(buffer) == Reversed(Front(Split(buffer, <<LF>>)))

\* "lines = buffer.split('\n'); buffer = lines.pop()": the lines to handle.
CompleteLines(buffer) == Front(Split(buffer, <<LF>>))

\* "[FILTERED]", one unit of a text.
Marker == "[FILTERED]"

\* inappropriate_patterns: \b(hack|exploit|vulnerability)\b and
\* \b(password|secret|token)\b, the words of each.
inappropriate_patterns ==
    <<{<<"h", "a", "c", "k">>, <<"e", "x", "p", "l", "o", "i", "t">>, <<"v", "u", "l", "n", "e", "r", "a", "b", "i", "l", "i", "t", "y">>},
      {<<"p", "a", "s", "s", "w", "o", "r", "d">>, <<"s", "e", "c", "r", "e", "t">>, <<"t", "o", "k", "e", "n">>}>>

\* \w
IsWordChar(c) == LowerChar(c) \in Letters \/ c \in {Digits[i] : i \in 1..10} \/ c = "_"

\* \b before position i of s
WordBoundary(s, i) ==
    (i > 1 /\ IsWordChar(s[i - 1])) # (i <= Len(s) /\ IsWordChar(s[i]))

\* The length of the match of \b(words)\b at position i of s, with
\* re.IGNORECASE; 0 when there is none.
MatchLength(s, i, words) ==
    LET matching == {w \in words :
                        /\ i + Len(w) - 1 <= Len(s)
                        /\ Lower(SubSeq(s, i, i + Len(w) - 1)) = w
                        /\ WordBoundary(s, i)
                        /\ WordBoundary(s, i + Len(w))}
    IN  IF matching = {} THEN 0 ELSE Len(CHOOSE w \in matching : TRUE)

\* re.sub(pattern, "[FILTERED]", content, flags=re.IGNORECASE), from position i
RECURSIVE Redact(_, _, _)
Redact(s, i, words) ==
    IF i > Len(s) THEN <<>>
    ELSE LET n == MatchLength(s, i, words)
         IN  IF n > 0 THEN <<Marker>> \o Redact(s, i + n, words)
             ELSE <<s[i]>> \o Redact(s, i + 1, words)

IsNotMarker(c) == c # Marker

\* Mutant: a text is never blocked.
_filter_content_NeverBlocks(content) ==
    Redact(Redact(content, 1, inappropriate_patterns[1]), 1, inappropriate_patterns[2])

\* _filter_content: the filtered text, or None for a text that is blocked.
_filter_content(content) ==
    LET filtered == Redact(Redact(content, 1, inappropriate_patterns[1]), 1,
                           inappropriate_patterns[2])
    IN  IF (\E i \in 1..Len(filtered) : filtered[i] = Marker)
           /\ Len(Strip(SelectSeq(filtered, IsNotMarker))) < 5
        THEN None
        ELSE filtered

\* modifications, in the order of the dict.
modifications ==
    <<[original |-> <<"y", "o", "u", "r", " ", "w", "e", "l", "c", "o", "m", "e">>,
       replacement |-> <<"y", "o", "u", "'", "r", "e", " ", "w", "e", "l", "c", "o", "m", "e">>],
      [original |-> <<"d", "e", "f", "i", "n", "a", "t", "e", "l", "y">>,
       replacement |-> <<"d", "e", "f", "i", "n", "i", "t", "e", "l", "y">>],
      [original |-> <<"s", "e", "p", "e", "r", "a", "t", "e">>,
       replacement |-> <<"s", "e", "p", "a", "r", "a", "t", "e">>],
      [original |-> <<"I", " ", "c", "a", "n", " ", "h", "e", "l", "p">>,
       replacement |-> <<"I", "'", "d", " ", "b", "e", " ", "h", "a", "p", "p", "y", " ", "t", "o", " ", "h", "e", "l", "p">>],
      [original |-> <<"I", " ", "d", "o", "n", "'", "t", " ", "k", "n", "o", "w">>,
       replacement |-> <<"I", "'", "m", " ", "n", "o", "t", " ", "c", "e", "r", "t", "a", "i", "n", " ", "a", "b", "o", "u", "t", " ", "t", "h", "a", "t", ",", " ", "b", "u", "t">>]>>

\* str.replace(old, new)
RECURSIVE Replace(_, _, _)
Replace(s, old, new) ==
    IF s = <<>> THEN <<>>
    ELSE IF StartsWith(s, old) THEN new \o Replace(SubSeq(s, Len(old) + 1, Len(s)), old, new)
    ELSE <<Head(s)>> \o Replace(Tail(s), old, new)

\* The loop over modifications: each entry that occurs in the chunk, in any
\* case, assigns chunk.replace(original, replacement) to modified_chunk.
RECURSIVE ApplyModifications(_, _, _)
ApplyModifications(chunk, modified_chunk, k) ==
    IF k > Len(modifications) THEN modified_chunk
    ELSE ApplyModifications(chunk,
            IF Contains(Lower(chunk), Lower(modifications[k].original))
            THEN Replace(chunk, modifications[k].original, modifications[k].replacement)
            ELSE modified_chunk,
            k + 1)

WordError == <<"e", "r", "r", "o", "r">>
WordHelp == <<"h", "e", "l", "p">>
Guidance == " Let me provide some additional guidance."

\* Mutant: the guidance is appended to every chunk.
_modify_response_AlwaysGuidance(chunk, full_context) == Append(chunk, Guidance)

\* _modify_response
_modify_response(chunk, full_context) ==
    IF Contains(Lower(full_context), WordError) /\ Contains(Lower(chunk), WordHelp)
    THEN Append(chunk, Guidance)
    ELSE ApplyModifications(chunk, chunk, 1)

trigger_phrases ==
    {<<"I", " ", "n", "e", "e", "d", " ", "h", "e", "l", "p", " ", "w", "i", "t", "h">>,
     <<"C", "a", "n", " ", "y", "o", "u", " ", "e", "x", "p", "l", "a", "i", "n">>,
     <<"W", "h", "a", "t", " ", "i", "s", " ", "t", "h", "e", " ", "b", "e", "s", "t", " ", "w", "a", "y">>}

\* _should_inject_system_message(context)
_should_inject_system_message(context) ==
    \E phrase \in trigger_phrases : Contains(Lower(context), Lower(phrase))

StreamInfo == <<"The AI is analyzing your request. Response may be enhanced based on content filters.">>

\* The body of the loop of vertex_to_v2_stream for one item: st holds
\* text_buffer, the two counters and the frames yielded so far.
InterceptItem(st, chunk, config) ==
    IF chunk.type = "image"
    THEN [st EXCEPT !.frames = Append(@, V2ResponseChunk("image", chunk.data, FALSE))]
    ELSE LET text_buffer == st.text_buffer \o chunk.data
             filtered == IF config.filter_content THEN _filter_content(chunk.data)
                         ELSE chunk.data
             intercepted == st.intercepted + (IF filtered # chunk.data THEN 1 ELSE 0)
         IN  IF filtered = None
             THEN [st EXCEPT !.text_buffer = text_buffer, !.intercepted = intercepted]
             ELSE LET modified == IF config.modify_responses
                                  THEN _modify_response(filtered, text_buffer)
                                  ELSE filtered
                      system == IF config.inject_system_messages
                                   /\ _should_inject_system_message(text_buffer)
                                THEN <<V2ResponseChunk("system", StreamInfo, FALSE)>>
                                ELSE <<>>
                  IN  [text_buffer |-> text_buffer,
                       intercepted |-> intercepted,
                       modified |-> st.modified + (IF modified # filtered THEN 1 ELSE 0),
                       frames |-> st.frames \o system \o <<V2ResponseChunk("text", modified, FALSE)>>]

RECURSIVE InterceptItems(_, _, _)
InterceptItems(st, chunks, config) ==
    IF chunks = <<>> THEN st
    ELSE InterceptItems(InterceptItem(st, Head(chunks), config), Tail(chunks), config)

\* Mutant: the last chunk is not marked final.
FinalFrame_NotFinal(st) ==
    V2ResponseChunk("text",
          IF st.intercepted > 0 \/ st.modified > 0 THEN <<"[Stream processed]">> ELSE <<>>,
          FALSE)

\* The last chunk of vertex_to_v2_stream.
FinalFrame(st) ==
    V2ResponseChunk("text",
          IF st.intercepted > 0 \/ st.modified > 0 THEN <<"[Stream processed]">> ELSE <<>>,
          TRUE)

\* "data: [DONE]": a marker, not a chunk, so it carries no is_final mark.
DoneFrame == [type |-> "done", content |-> <<"[DONE]">>, is_final |-> FALSE]

\* The chunk of the "except Exception" of stream_v2_response.
StreamErrorFrame == V2ResponseChunk("error", <<"Internal error: ", "AttributeError">>, TRUE)

\* The variables of vertex_to_v2_stream before its loop.
StreamStart(text_buffer) ==
    [text_buffer |-> text_buffer, intercepted |-> 0, modified |-> 0, frames |-> <<>>]

InitStream ==
    /\ NotServing
    /\ handler = NoHandler /\ now = 0 /\ callers = <<>> /\ running = 0 /\ authLog = NoAuthLog
    /\ call \in {[fn |-> "stream_vertex_response", wire |-> w, rest |-> w,
                  preprocessing |-> o, config |-> intercept_config(o),
                  buffer |-> <<>>, st |-> StreamStart(<<>>), ended |-> FALSE] :
                    w \in Wires, o \in StreamOptions}

\* One piece of the upstream text arrives: its complete lines are decoded,
\* and each part is intercepted and re-emitted before the next is decoded.
\* A line that raises ends the stream with the error chunk.
StreamPiece ==
    /\ call.fn = "stream_vertex_response"
    /\ call.rest # <<>>
    /\ LET buffer == call.buffer \o Head(call.rest)
           lines == Split(buffer, <<LF>>)
           handled == UntilRaise(CompleteLines(buffer))
           st == InterceptItems(call.st, DecodeLines(handled), call.config)
       IN  IF Len(handled) = Len(CompleteLines(buffer))
           THEN call' = [call EXCEPT !.rest = Tail(@),
                                     !.buffer = lines[Len(lines)],
                                     !.st = st]
           ELSE call' = [call EXCEPT !.rest = <<>>,
                                     !.buffer = lines[Len(lines)],
                                     !.st = [st EXCEPT !.frames = Append(@, StreamErrorFrame)],
                                     !.ended = TRUE]
    /\ UNCHANGED <<progVars, authVars>>

\* The upstream stream ends: the final chunk and the completion signal.
StreamEnds ==
    /\ call.fn = "stream_vertex_response"
    /\ call.rest = <<>>
    /\ ~call.ended
    /\ call' = [call EXCEPT !.ended = TRUE,
                            !.st.frames = @ \o <<FinalFrame(call.st), DoneFrame>>]
    /\ UNCHANGED <<progVars, authVars>>

NextStream == StreamPiece \/ StreamEnds

SpecStream == InitStream /\ [][NextStream]_vars

(***************************************************************************)
(* Claims about the proxying, checked under SpecStream.                    *)
(***************************************************************************)
\* The whole upstream text.
RECURSIVE Concat(_)
Concat(pieces) == IF pieces = <<>> THEN <<>> ELSE Head(pieces) \o Concat(Tail(pieces))

\* The upstream events in their order: the parts of the lines that ended
\* with a line feed.
RECURSIVE EventsOf(_, _)
EventsOf(text, line) ==
    IF text = <<>> THEN <<>>
    ELSE IF Head(text) = LF THEN DecodeLine(line) \o EventsOf(Tail(text), <<>>)
    ELSE EventsOf(Tail(text), Append(line, Head(text)))

UpstreamEvents == EventsOf(Concat(call.wire), <<>>)

IsForwarded(frame) == frame.type \in {"text", "image"} /\ ~frame.is_final

\* The text and image frames forwarded so far.
Forwarded == SelectSeq(call.st.frames, IsForwarded)

\* What the content filter makes of each upstream text.
FilteredText == [t \in TextUnits |-> _filter_content(t)]

\* The forms in which a text may be re-emitted: as it is, filtered, modified
\* or both.
EmittedForms ==
    [t \in TextUnits |->
        {t, FilteredText[t], _modify_response(t, <<>>),
         _modify_response(FilteredText[t], <<>>)} \ {None}]

\* The stream ended with the error chunk.
StreamAborted ==
    call.st.frames # <<>> /\ call.st.frames[Len(call.st.frames)].type = "error"

\* The frame is the re-emission of the event.
FrameOf(frame, event) ==
    /\ frame.type = event.type
    /\ IF event.type = "text" THEN frame.content \in EmittedForms[event.data]
       ELSE frame.content = event.data

\* The event is one the content filter blocks.
Blocked(event) ==
    /\ call.config.filter_content
    /\ event.type = "text"
    /\ FilteredText[event.data] = None

\* The frames are the events without the blocked ones, in the same order;
\* while the stream runs, later events may still be missing.
RECURSIVE InUpstreamOrder(_, _)
InUpstreamOrder(frames, events) ==
    IF events = <<>> THEN frames = <<>>
    ELSE \/ /\ frames # <<>>
            /\ FrameOf(Head(frames), Head(events))
            /\ InUpstreamOrder(Tail(frames), Tail(events))
         \/ /\ Blocked(Head(events)) \/ (frames = <<>> /\ (~call.ended \/ StreamAborted))
            /\ InUpstreamOrder(frames, Tail(events))

\* C20: while an upstream stream is proxied, the forwarded text and image
\* frames are the upstream events in upstream order: none is reordered or
\* duplicated, and only events the filter blocks are missing at the end.
C20_UpstreamOrder ==
    call.fn = "stream_vertex_response" => InUpstreamOrder(Forwarded, UpstreamEvents)

\* A stream of a blocked text, a text and an image, in several pieces, was
\* forwarded as the text followed by the image.
C20_Witness ==
    /\ call.fn = "stream_vertex_response"
    /\ call.ended
    /\ Len(call.wire) > 1
    /\ Len(UpstreamEvents) > Len(Forwarded)
    /\ Len(Forwarded) = 2
    /\ Forwarded[1].type = "text"
    /\ Forwarded[2].type = "image"

\* The events of every data line of the upstream text, the last line
\* included when no line feed follows it.
AllUpstreamEvents == EventsOf(Concat(call.wire) \o <<LF>>, <<>>)

\* C39: the decoder yields the same text and image events however the
\* upstream text is cut into pieces, and every data line received before the
\* stream ends is decoded, a last line without a line feed included: once
\* the stream has ended the forwarded events are those of all the data lines
\* of the text.
C39_Claim ==
    (call.fn = "stream_vertex_response" /\ call.ended /\ ~StreamAborted) =>
        InUpstreamOrder(Forwarded, AllUpstreamEvents)

\* The lines of the upstream text that ended with a line feed.
UpstreamLines == Front(Split(Concat(call.wire), <<LF>>))

IsWellFormed(line) == line # MalformedLine

\* C31: a data line whose payload is not JSON is skipped and the stream goes
\* on: when the stream of a text with such a line (and no line that raises)
\* has ended, the events of the other lines were forwarded in their order,
\* no error chunk was sent, and the stream closed with its final chunk and
\* the completion signal.
C31_MalformedSkipped ==
    (/\ call.fn = "stream_vertex_response"
     /\ call.ended
     /\ \E i \in 1..Len(UpstreamLines) : UpstreamLines[i] = MalformedLine
     /\ \A i \in 1..Len(UpstreamLines) : UpstreamLines[i] # <<DataUnit, NullUnit>>) =>
        LET frames == call.st.frames
        IN  /\ InUpstreamOrder(Forwarded, DecodeLines(SelectSeq(UpstreamLines, IsWellFormed)))
            /\ \A i \in 1..Len(frames) : frames[i].type # "error"
            /\ Len(frames) >= 2
            /\ frames[Len(frames)] = DoneFrame
            /\ frames[Len(frames) - 1].type = "text" /\ frames[Len(frames) - 1].is_final

\* The stream with the malformed line between two events arrived in several
\* pieces and ended: the three events around the line were forwarded.
C31_Witness ==
    /\ call.fn = "stream_vertex_response"
    /\ call.ended
    /\ Len(call.wire) > 1
    /\ Len(UpstreamLines) = 3
    /\ UpstreamLines[2] = MalformedLine
    /\ Len(Forwarded) = 3
    /\ Forwarded[2].type = "image"
    /\ call.st.frames[Len(call.st.frames)] = DoneFrame

\* The chunks marked final among those sent so far, in the streaming and in
\* the steps before it.
FinalChunks == {i \in 1..Len(call.st.frames) : call.st.frames[i].is_final}

FinalBeforeStream == {i \in 1..Len(out) : out[i].frame.is_final}

\* C38: a /v2/chat response has exactly one chunk marked final.  While the
\* response is being produced none is; a stream that ended normally has it
\* as the last chunk of vertex_to_v2_stream, followed by the completion
\* signal alone; a response that failed, before or during the streaming, has
\* the error chunk as its last chunk, with no completion signal.
C38_OneFinal ==
    /\ call.fn = "stream_vertex_response" =>
          LET frames == call.st.frames
              n == Len(frames)
          IN  /\ ~call.ended => (FinalChunks = {} /\ \A i \in 1..n : frames[i] # DoneFrame)
              /\ (call.ended /\ ~StreamAborted) =>
                    /\ n >= 2
                    /\ FinalChunks = {n - 1}
                    /\ frames[n - 1].type = "text"
                    /\ frames[n] = DoneFrame
                    /\ \A i \in 1..(n - 1) : frames[i] # DoneFrame
              /\ (call.ended /\ StreamAborted) =>
                    /\ FinalChunks = {n}
                    /\ \A i \in 1..n : frames[i] # DoneFrame
    /\ entry = "chat" =>
          /\ pc # "closed" => FinalBeforeStream = {}
          /\ pc = "closed" =>
                /\ FinalBeforeStream = {Len(out)}
                /\ out[Len(out)].frame.type = "error"

\* A stream was cut short by a line that raised, after an event had been
\* forwarded: the error chunk is the one final chunk and the last.
C38_Witness ==
    /\ call.fn = "stream_vertex_response"
    /\ call.ended
    /\ StreamAborted
    /\ Len(Forwarded) >= 1
    /\ FinalChunks = {Len(call.st.frames)}

\* The system frames yielded so far.
SystemFrames == {i \in 1..Len(call.st.frames) : call.st.frames[i].type = "system"}

\* C23: with injection enabled, at most one system notice is emitted per
\* stream: none is emitted before an event that follows the first event whose
\* accumulated context contains a trigger phrase.
C23_Claim ==
    (call.fn = "stream_vertex_response" /\ call.config.inject_system_messages) =>
        Cardinality(SystemFrames) <= 1

(***************************************************************************)
(* endpoint_translator.py: get_vertex_endpoint applied to a path on its    *)
(* own.  A path is a text of lexical units: the two prefixes the patterns  *)
(* look for, model names, the colon and an action.                         *)
(***************************************************************************)
V1Beta == "/v1beta/models/"
V1 == "/v1/models/"
ImagePreview == "gemini-2.5-flash-image-preview"

PathUnits == {V1Beta, V1, ImagePreview, "gemini-2.5-flash", ":", "generateContent"}

GeminiPaths == UNION {[1..n -> PathUnits] : n \in 1..MaxPath}

\* EndpointTranslator(project_id, location)
EndpointTranslator(project_id, location) ==
    [project_id |-> project_id,
     default_location |-> location,
     vertex_base_url |-> "https://aiplatform.googleapis.com",
     model_location_mappings |-> [m \in {<<ImagePreview>>} |-> "global"]]

\* Where prefix([^:]+):(.+) matches at position i: the colon that ends the
\* model name, 0 when there is no match at i.
MatchAt(path, i, prefix) ==
    IF path[i] # prefix THEN 0
    ELSE LET colons == {c \in (i + 1)..Len(path) : path[c] = ":"}
         IN  IF colons = {} THEN 0
             ELSE LET c == CHOOSE x \in colons : \A y \in colons : x <= y
                  IN  IF c >= i + 2 /\ c < Len(path) THEN c ELSE 0

\* re.search(pattern, gemini_path): the groups of the leftmost match.
NoMatch == [found |-> FALSE, model_name |-> <<>>, action |-> <<>>]

Search(path, prefix) ==
    LET starts == {i \in 1..Len(path) : MatchAt(path, i, prefix) # 0}
    IN  IF starts = {} THEN NoMatch
        ELSE LET i == CHOOSE x \in starts : \A y \in starts : x <= y
                 c == MatchAt(path, i, prefix)
             IN  [found |-> TRUE,
                  model_name |-> SubSeq(path, i + 1, c - 1),
                  action |-> SubSeq(path, c + 1, Len(path))]

\* _get_location_for_model
_get_location_for_model(self, model_name) ==
    IF model_name \in DOMAIN self.model_location_mappings
    THEN self.model_location_mappings[model_name]
    ELSE "australia-southeast1"

\* _map_model_name: the table of mappings is empty.
_map_model_name(gemini_model_name) == gemini_model_name

VertexUrl(base, project_id, location, model_name, action) ==
    <<base, "/v1/projects/", project_id, "/locations/", location,
      "/publishers/google/models/">> \o model_name \o <<":">> \o action

\* get_vertex_endpoint
get_vertex_endpoint(self, gemini_path) ==
    LET first == Search(gemini_path, V1Beta)
        match == IF first.found THEN first ELSE Search(gemini_path, V1)
    IN  IF ~match.found THEN Raised("ValueError")
        ELSE Returned(VertexUrl(self.vertex_base_url, self.project_id,
                                _get_location_for_model(self, match.model_name),
                                _map_model_name(match.model_name), match.action))

InitEndpoint ==
    /\ NotServing
    /\ handler = NoHandler /\ now = 0 /\ callers = <<>> /\ running = 0 /\ authLog = NoAuthLog
    /\ call \in {[fn |-> "get_vertex_endpoint",
                  self |-> EndpointTranslator("proj", location),
                  gemini_path |-> path, ended |-> Pending] :
                    location \in {"global", "us-central1"}, path \in GeminiPaths}

\* get_vertex_endpoint is called and ends.
GetVertexEndpoint ==
    /\ call.fn = "get_vertex_endpoint"
    /\ call.ended = Pending
    /\ call' = [call EXCEPT !.ended = get_vertex_endpoint(call.self, call.gemini_path)]
    /\ UNCHANGED <<progVars, authVars>>

NextEndpoint == GetVertexEndpoint

SpecEndpoint == InitEndpoint /\ [][NextEndpoint]_vars

(***************************************************************************)
(* Claims about the endpoint resolution, checked under SpecEndpoint.       *)
(***************************************************************************)
Resolved == call.fn = "get_vertex_endpoint" /\ call.ended # Pending

ModelNames == {ImagePreview, "gemini-2.5-flash"}

\* The path of a request for a model and an action.
IsModelPath(path) ==
    /\ Len(path) = 4
    /\ path[1] \in {V1Beta, V1}
    /\ path[2] \in ModelNames
    /\ path[3] = ":"
    /\ path[4] = "generateContent"

\* A path whose model name is empty.
IsEmptyModelPath(path) ==
    /\ Len(path) = 3
    /\ path[1] \in {V1Beta, V1}
    /\ path[2] = ":"
    /\ path[3] = "generateContent"

\* C22: the URL of a model of the override table uses the table's region,
\* the URL of any other model the resolver's configured default region; the
\* model name and the action appear in it unchanged; an empty model name is
\* rejected with an error.
C22_Claim ==
    Resolved =>
        /\ IsModelPath(call.gemini_path) =>
              LET model == call.gemini_path[2]
                  region == IF model = ImagePreview THEN "global"
                            ELSE call.self.default_location
              IN  /\ call.ended.exc = "none"
                  /\ call.ended.value =
                        <<"https://aiplatform.googleapis.com", "/v1/projects/", "proj",
                          "/locations/", region, "/publishers/google/models/", model,
                          ":", "generateContent">>
        /\ IsEmptyModelPath(call.gemini_path) => call.ended.exc = "ValueError"

(***************************************************************************)
(* v2_api_enhanced.py stream_from_vertex_ai and v2_api.py                  *)
(* stream_v2_response: the upstream call together with the upstream that   *)
(* answers it.  "await client.post(...)" is the client's plain request: it *)
(* returns the response once the body has been read to its end, and        *)
(* response.aiter_text() then iterates over the body that was read.        *)
(***************************************************************************)
\* The events of a successful upstream response.
UpstreamEventSets ==
    UNION {[1..n -> UpstreamChunks \cup {format_text_chunk(ReplyText, FALSE, FALSE)}] :
              n \in 0..MaxChunks}

InitPost ==
    /\ NotServing
    /\ handler = NoHandler /\ now = 0 /\ callers = <<>> /\ running = 0 /\ authLog = NoAuthLog
    /\ call \in {[fn |-> "client_post", events |-> es, sent |-> 0, ended |-> FALSE,
                  consumed |-> 0, response |-> "awaited", forwarded |-> <<>>] :
                    es \in UpstreamEventSets}

\* The upstream sends its next event.
UpstreamSends ==
    /\ call.fn = "client_post"
    /\ call.sent < Len(call.events)
    /\ call' = [call EXCEPT !.sent = @ + 1]
    /\ UNCHANGED <<progVars, authVars>>

\* The upstream ends its response.
UpstreamEnds ==
    /\ call.fn = "client_post"
    /\ call.sent = Len(call.events)
    /\ ~call.ended
    /\ call' = [call EXCEPT !.ended = TRUE]
    /\ UNCHANGED <<progVars, authVars>>

\* client.post(), reading the body: the next event that was sent is consumed.
PostReads ==
    /\ call.fn = "client_post"
    /\ call.response = "awaited"
    /\ call.consumed < call.sent
    /\ call' = [call EXCEPT !.consumed = @ + 1]
    /\ UNCHANGED <<progVars, authVars>>

\* client.post() returns: the body has been read to its end.
PostReturns ==
    /\ call.fn = "client_post"
    /\ call.response = "awaited"
    /\ call.ended
    /\ call.consumed = Len(call.events)
    /\ call' = [call EXCEPT !.response = "returned"]
    /\ UNCHANGED <<progVars, authVars>>

\* "async for chunk in response.aiter_text(): yield chunk"
ForwardChunk ==
    /\ call.fn = "client_post"
    /\ call.response = "returned"
    /\ Len(call.forwarded) < Len(call.events)
    /\ call' = [call EXCEPT !.forwarded = Append(@, call.events[Len(@) + 1])]
    /\ UNCHANGED <<progVars, authVars>>

\* The body is exhausted: the generator ends.
ForwardEnds ==
    /\ call.fn = "client_post"
    /\ call.response = "returned"
    /\ Len(call.forwarded) = Len(call.events)
    /\ call' = [call EXCEPT !.response = "closed"]
    /\ UNCHANGED <<progVars, authVars>>

NextPost ==
    \/ UpstreamSends
    \/ UpstreamEnds
    \/ PostReads
    \/ PostReturns
    \/ ForwardChunk
    \/ ForwardEnds

SpecPost == InitPost /\ [][NextPost]_vars

\* C26: forwarding is incremental: an upstream event is emitted to the
\* caller before the next upstream event is consumed, and the caller has
\* the first event before the upstream response has been read to its end.
C26_Claim ==
    call.fn = "client_post" =>
        /\ call.consumed <= Len(call.forwarded) + 1
        /\ (call.response # "awaited" /\ call.events # <<>>) => call.forwarded # <<>>

(***************************************************************************)
(* v2_translator.py: the body of the loop of vertex_to_v2_stream applied   *)
(* to one item on its own, under every combination of the request's        *)
(* options and with some text already accumulated; the item it yields is   *)
(* then run through the loop again.                                        *)
(***************************************************************************)

MaxRuns == 2

TextMarkerOk == <<Marker, "o", "k">>
TextTypos == <<"d", "e", "f", "i", "n", "a", "t", "e", "l", "y", " ", "s", "e", "p", "e", "r", "a", "t", "e">>

InterceptTexts ==
    {TextHello, TextPassword, TextExplain, TextICanHelp, TextMarkerOk, TextTypos,
     <<"t", "h", "e", " ", "T", "o", "k", "e", "n", " ", "e", "x", "p", "i", "r", "e", "d", " ", "t", "o", "d", "a", "y">>,
     <<"t", "o", "k", "e", "n", "s">>,
     <<"Y", "o", "u", "r", " ", "W", "e", "l", "c", "o", "m", "e">>,
     <<"a", " ", "b", " ", "c", " ", "h", "a", "c", "k">>,
     <<" ", " ", "s", "e", "c", "r", "e", "t", " ", " ", " ">>}

InterceptChunks == {TextItem(t) : t \in InterceptTexts} \cup {ImageItem}

\* The text accumulated before the item.
TextErrorContext == <<"a", "n", " ", "e", "r", "r", "o", "r", " ", "o", "c", "c", "u", "r", "r", "e", "d", ".", " ">>
InterceptContexts == {<<>>, TextErrorContext, <<"I", " ", "n", "e", "e", "d", " ", "h", "e", "l", "p", " ", "w", "i", "t", "h", " ">>}

AllOptions ==
    {Preprocessing(f, m, i) : f \in BOOLEAN, m \in BOOLEAN, i \in BOOLEAN}

InitIntercept ==
    /\ NotServing
    /\ handler = NoHandler
    /\ now = 0
    /\ callers = <<>>
    /\ running = 0
    /\ authLog = NoAuthLog
    /\ call \in {[fn |-> "vertex_to_v2_stream", preprocessing |-> o,
                  config |-> intercept_config(o), text_buffer |-> b, chunk |-> c,
                  runs |-> <<>>] :
                    o \in AllOptions, b \in InterceptContexts, c \in InterceptChunks}

\* The text and image frames a run yielded, as items.
YieldedItems(run) ==
    LET frames == SelectSeq(run.frames, IsForwarded)
    IN  [i \in 1..Len(frames) |-> [type |-> frames[i].type, data |-> frames[i].content]]

\* One run of the loop body: over the item, then over what the run before
\* yielded for it.
InterceptChunk ==
    /\ call.fn = "vertex_to_v2_stream"
    /\ Len(call.runs) < MaxRuns
    /\ LET inputs == IF call.runs = <<>> THEN <<call.chunk>>
                     ELSE YieldedItems(call.runs[Len(call.runs)])
       IN  /\ inputs # <<>>
           /\ call' = [call EXCEPT !.runs =
                          Append(@, InterceptItem(StreamStart(call.text_buffer),
                                                  inputs[1], call.config))]
    /\ UNCHANGED <<progVars, authVars>>

NextIntercept == InterceptChunk

SpecIntercept == InitIntercept /\ [][NextIntercept]_vars

\* The first run over a text item has ended.
TextRunEnded ==
    /\ call.fn = "vertex_to_v2_stream"
    /\ call.chunk.type = "text"
    /\ call.runs # <<>>

\* The text frames of the first run.
TextFrames == SelectSeq(call.runs[1].frames, IsForwarded)

\* The system frames of the first run.
NoticeFrames == {i \in 1..Len(call.runs[1].frames) : call.runs[1].frames[i].type = "system"}

\* The filter left the text as it was: it is emitted, and holds a marker
\* only where the upstream text held one.
NotFiltered ==
    /\ Len(TextFrames) = 1
    /\ call.runs[1].intercepted = 0
    /\ Contains(TextFrames[1].content, <<Marker>>) => Contains(call.chunk.data, <<Marker>>)

\* Modification and injection happen only when their own option is on.
OwnToggleOnly ==
    /\ ~call.preprocessing.modify_responses =>
            /\ call.runs[1].modified = 0
            /\ \A i \in 1..Len(TextFrames) : ~Contains(TextFrames[i].content, <<Guidance>>)
    /\ ~call.preprocessing.inject_system => NoticeFrames = {}

SensitiveTerms == inappropriate_patterns[1] \cup inappropriate_patterns[2]

\* The listed term occurs in the text at position i as a whole word, in any
\* case.
WholeWordAt(text, i, term) ==
    /\ i + Len(term) - 1 <= Len(text)
    /\ \A k \in 1..Len(term) : LowerChar(text[i + k - 1]) = term[k]
    /\ i = 1 \/ ~IsWordChar(text[i - 1])
    /\ i + Len(term) > Len(text) \/ ~IsWordChar(text[i + Len(term)])

HasSensitiveTerm(text) ==
    \E term \in SensitiveTerms : \E i \in 1..Len(text) : WholeWordAt(text, i, term)

\* The text with the characters of its whole-word sensitive terms left out.
Remainder(text) ==
    LET covered == {i \in 1..Len(text) :
                       \E term \in SensitiveTerms : \E j \in 1..i :
                           WholeWordAt(text, j, term) /\ i < j + Len(term)}
        Kept(i) == i \notin covered
    IN  [k \in 1..Cardinality(DOMAIN text \ covered) |->
            text[CHOOSE i \in DOMAIN text \ covered :
                    Cardinality({j \in DOMAIN text \ covered : j < i}) = k - 1]]

\* The request asked for content filtering alone.
FilterOnly ==
    /\ call.preprocessing.filter_content
    /\ ~call.preprocessing.modify_responses
    /\ ~call.preprocessing.inject_system

\* C27: with content filtering enabled, no whole-word, case-insensitive
\* occurrence of a listed sensitive term is left in an emitted text event
\* and what is emitted is the text with each occurrence replaced by the
\* marker; an event left with fewer than 5 non-marker characters after
\* redaction is dropped; an event with no match is emitted unchanged.
C27_Claim ==
    (TextRunEnded /\ FilterOnly) =>
        /\ \A i \in 1..Len(TextFrames) :
              /\ ~HasSensitiveTerm(TextFrames[i].content)
              /\ SelectSeq(TextFrames[i].content, IsNotMarker)
                     = SelectSeq(Remainder(call.chunk.data), IsNotMarker)
        /\ (/\ HasSensitiveTerm(call.chunk.data)
            /\ Len(SelectSeq(Remainder(call.chunk.data), IsNotMarker)) < 5)
                => TextFrames = <<>>
        /\ ~HasSensitiveTerm(call.chunk.data)
                => call.runs[1].frames = <<V2ResponseChunk("text", call.chunk.data, FALSE)>>

\* The table entry occurs in the text.
Occurs(k, text) == Contains(text, modifications[k].original)

\* C28: with response modification enabled, every table entry that occurs
\* in an event is replaced by its replacement in the emitted event, and when
\* the accumulated context holds "error" and the event holds "help" the
\* contextual sentence is appended to the event with those replacements.
C28_Claim ==
    (TextRunEnded /\ call.config.modify_responses /\ ~call.config.filter_content) =>
        /\ Len(TextFrames) = 1
        /\ \A k \in 1..Len(modifications) :
              Occurs(k, call.chunk.data) =>
                  /\ ~Occurs(k, TextFrames[1].content)
                  /\ Contains(TextFrames[1].content, modifications[k].replacement)
        /\ (/\ Contains(Lower(call.text_buffer \o call.chunk.data), WordError)
            /\ Contains(Lower(call.chunk.data), WordHelp))
                => TextFrames[1].content[Len(TextFrames[1].content)] = Guidance

\* The item triggers no filter, modifier or injection: an image, or a text
\* with no listed sensitive term and no marker for the block rule, no table
\* entry and no help after an error, whose accumulated context holds no
\* trigger phrase.
TriggersNothing ==
    \/ call.chunk.type = "image"
    \/ /\ ~HasSensitiveTerm(call.chunk.data)
       /\ ~Contains(call.chunk.data, <<Marker>>)
       /\ \A k \in 1..Len(modifications) :
              ~Contains(Lower(call.chunk.data), Lower(modifications[k].original))
       /\ ~Contains(Lower(call.chunk.data), WordHelp)
       /\ \A phrase \in trigger_phrases :
              ~Contains(Lower(call.text_buffer \o call.chunk.data), Lower(phrase))

\* C21: the interceptor run over an event that triggers no filter, modifier
\* or injection yields the event unchanged, and run again over what it
\* yielded it yields the same event, whatever the options.
C21_Unchanged ==
    (call.fn = "vertex_to_v2_stream" /\ TriggersNothing) =>
        \A n \in 1..Len(call.runs) :
            call.runs[n].frames =
                <<V2ResponseChunk(call.chunk.type, call.chunk.data, FALSE)>>

\* A text that triggers nothing went through the interceptor twice with
\* filtering, modification and injection all on.
C21_Witness ==
    /\ call.fn = "vertex_to_v2_stream"
    /\ TriggersNothing
    /\ call.chunk.type = "text"
    /\ call.config.filter_content
    /\ call.config.modify_responses
    /\ call.config.inject_system_messages
    /\ Len(call.runs) = MaxRuns

(***************************************************************************)
(* prompt_analyzer.py: _enhance_direct_reply applied on its own to reply   *)
(* texts of one to MaxSentences sentences, and then to its own result.     *)
(***************************************************************************)
MaxSentences == 3

SentenceBreak == <<".", " ">>
ParagraphBreak == <<"\n", "\n">>

SentenceBodies == {<<"O", "k">>, <<"N", "o">>}

\* Replies of n sentences, joined by ". " or, for the last two, by a
\* paragraph break; ending with or without a full stop, or with blanks.
ReplyTexts ==
    UNION {{Join(ss, SentenceBreak) \o ending,
            <<" ">> \o Join(ss, SentenceBreak) \o ending,
            Join(SubSeq(ss, 1, Len(ss) - 1), SentenceBreak) \o <<".">> \o ParagraphBreak
                \o ss[Len(ss)] \o ending} :
           ss \in UNION {[1..n -> SentenceBodies] : n \in 1..MaxSentences},
           ending \in {<<>>, <<".">>, <<".", " ">>}}

InitEnhance ==
    /\ NotServing
    /\ handler = NoHandler /\ now = 0 /\ callers = <<>> /\ running = 0 /\ authLog = NoAuthLog
    /\ call \in {[fn |-> "_enhance_direct_reply", reply_text |-> t, runs |-> <<>>] :
                    t \in ReplyTexts}

\* _enhance_direct_reply is applied: to the reply, then to what it returned.
EnhanceReply ==
    /\ call.fn = "_enhance_direct_reply"
    /\ Len(call.runs) < MaxRuns
    /\ call' = [call EXCEPT !.runs =
                    Append(@, _enhance_direct_reply(IF call.runs = <<>> THEN call.reply_text
                                                    ELSE call.runs[Len(call.runs)]))]
    /\ UNCHANGED <<progVars, authVars>>

NextEnhance == EnhanceReply

SpecEnhance == InitEnhance /\ [][NextEnhance]_vars

\* The number of sentences of a trimmed reply: one more than its ". ".
RECURSIVE SentenceCount(_)
SentenceCount(text) ==
    IF Len(text) < 2 THEN 1
    ELSE IF SubSeq(text, 1, 2) = SentenceBreak THEN 1 + SentenceCount(SubSeq(text, 3, Len(text)))
    ELSE SentenceCount(Tail(text))

\* The positions of the text where a paragraph break begins.
BreaksOf(text) == {i \in 1..(Len(text) - 1) : SubSeq(text, i, i + 1) = ParagraphBreak}

\* The text is the two paragraphs of the reply: one break, after a full stop,
\* and with a blank in place of the break the text is the reply, with a full
\* stop at its end.
TwoParagraphsOf(text, reply) ==
    /\ Cardinality(BreaksOf(text)) = 1
    /\ LET i == CHOOSE j \in BreaksOf(text) : TRUE
           joined == SubSeq(text, 1, i - 1) \o <<" ">> \o SubSeq(text, i + 2, Len(text))
       IN  /\ i > 1 /\ text[i - 1] = "."
           /\ joined = (IF reply[Len(reply)] = "." THEN reply ELSE reply \o <<".">>)
           /\ SentenceCount(SubSeq(text, 1, i - 1)) = SentenceCount(reply) \div 2

\* C34 as stated: a reply with no line feed and more than one sentence
\* comes back as its sentences in two paragraphs, any other reply comes back
\* trimmed, and the function applied to its result returns the result.
C34_Claim ==
    (call.fn = "_enhance_direct_reply" /\ call.runs # <<>>) =>
        LET reply == Strip(call.reply_text)
        IN  /\ IF ~Contains(reply, <<"\n">>) /\ SentenceCount(reply) > 1
               THEN TwoParagraphsOf(call.runs[1], reply)
               ELSE call.runs[1] = reply
            /\ \A n \in 2..Len(call.runs) : call.runs[n] = call.runs[1]

\* C34, amended: a reply with no line feed and more than two sentences comes
\* back as its sentences in two paragraphs, split after the first half of
\* the sentences and with a full stop at its end; any other reply comes back
\* trimmed; the function applied to its result returns the result.
C34_SplitsLongReply ==
    (call.fn = "_enhance_direct_reply" /\ call.runs # <<>>) =>
        LET reply == Strip(call.reply_text)
        IN  /\ IF ~Contains(reply, <<"\n">>) /\ SentenceCount(reply) > 2
               THEN TwoParagraphsOf(call.runs[1], reply)
               ELSE call.runs[1] = reply
            /\ \A n \in 2..Len(call.runs) : call.runs[n] = call.runs[1]

\* A reply of three sentences was split and the result enhanced again.
C34_Witness ==
    /\ call.fn = "_enhance_direct_reply"
    /\ ~Contains(call.reply_text, <<"\n">>)
    /\ SentenceCount(Strip(call.reply_text)) = 3
    /\ Len(call.runs) = MaxRuns
    /\ Cardinality(BreaksOf(call.runs[1])) = 1

(***************************************************************************)
(* v2_translator.py: V2MessageTranslator.get_vertex_endpoint applied on    *)
(* its own, for translators of several projects, several values of         *)
(* settings.vertex_ai_location and several models.                         *)
(***************************************************************************)
\* The default of the model parameter.
DefaultModel == ImagePreview

\* The argument of a call that gives no model.
NoModel == "<omitted>"

ModelArguments ==
    {NoModel, ImagePreview, "gemini-2.5-flash", "gemini-2.5-flash-lite", "gemini-2.5-pro",
     "imagen-4"}

Locations == {"global", "us-central1", "australia-southeast1"}

\* Mutant: the location is always "global".
v2_get_vertex_endpoint_Global(project_id, vertex_ai_location, model) ==
    <<"https://aiplatform.googleapis.com/v1/projects/", project_id, "/locations/",
      "global", "/publishers/google/models/",
      IF model = NoModel THEN DefaultModel ELSE model, ":streamGenerateContent">>

\* V2MessageTranslator.get_vertex_endpoint: the pieces of the f-string.
v2_get_vertex_endpoint(project_id, vertex_ai_location, model) ==
    <<"https://aiplatform.googleapis.com/v1/projects/", project_id, "/locations/",
      vertex_ai_location, "/publishers/google/models/",
      IF model = NoModel THEN DefaultModel ELSE model, ":streamGenerateContent">>

InitV2Endpoint ==
    /\ NotServing
    /\ handler = NoHandler /\ now = 0 /\ callers = <<>> /\ running = 0 /\ authLog = NoAuthLog
    /\ call \in {[fn |-> "v2_get_vertex_endpoint", project_id |-> p,
                  vertex_ai_location |-> l, model |-> m, ended |-> Pending] :
                    p \in {"projA", "projB", "None"}, l \in Locations, m \in ModelArguments}

\* get_vertex_endpoint is called and returns.
V2GetVertexEndpoint ==
    /\ call.fn = "v2_get_vertex_endpoint"
    /\ call.ended = Pending
    /\ call' = [call EXCEPT !.ended =
                    Returned(v2_get_vertex_endpoint(call.project_id, call.vertex_ai_location,
                                                    call.model))]
    /\ UNCHANGED <<progVars, authVars>>

NextV2Endpoint == V2GetVertexEndpoint

SpecV2Endpoint == InitV2Endpoint /\ [][NextV2Endpoint]_vars

\* The piece follows the marker in the URL.
Follows(url, marker, piece) ==
    \E i \in 1..(Len(url) - 1) : url[i] = marker /\ url[i + 1] = piece

\* C36: the URL get_vertex_endpoint returns names the translator's project,
\* the configured location, the given model (the default model when none is
\* given) and the action streamGenerateContent, for every model and
\* location.
C36_StreamingUrl ==
    (call.fn = "v2_get_vertex_endpoint" /\ call.ended # Pending) =>
        LET url == call.ended.value
        IN  /\ call.ended.exc = "none"
            /\ Follows(url, "https://aiplatform.googleapis.com/v1/projects/", call.project_id)
            /\ Follows(url, "/locations/", call.vertex_ai_location)
            /\ Follows(url, "/publishers/google/models/",
                       IF call.model = NoModel THEN ImagePreview ELSE call.model)
            /\ url[Len(url)] = ":streamGenerateContent"

\* The endpoint of the default model was asked for with another location
\* than "global".
C36_Witness ==
    /\ call.fn = "v2_get_vertex_endpoint"
    /\ call.ended # Pending
    /\ call.model = NoModel
    /\ call.vertex_ai_location = "us-central1"
    /\ Follows(call.ended.value, "/locations/", "us-central1")

(***************************************************************************)
(* main.py: gemini_compatible_endpoint, the translation-mode endpoint, one *)
(* request from its arrival to its answer.  The names of the caller's      *)
(* headers are lower case, as request.headers gives them; a name is a text *)
(* of one or two units, so that its "x-goog-" prefix can be told.          *)
(***************************************************************************)
XGoog == "x-goog-"

CallerHeaders ==
    [n \in {<<"authorization">>, <<XGoog, "api-key">>, <<XGoog, "user-project">>,
             <<"x-request-id">>} |->
        CASE n = <<"authorization">> -> <<"Bearer ", "caller-jwt">>
          [] n = <<XGoog, "api-key">> -> <<"caller-api-key">>
          [] n = <<XGoog, "user-project">> -> <<"caller-project">>
          [] n = <<"x-request-id">> -> <<"r-1">>]

\* What the caller can send besides host and content-length.
HeaderSets ==
    {[n \in names \cup {<<"host">>, <<"content-length">>} |->
         IF n \in DOMAIN CallerHeaders THEN CallerHeaders[n] ELSE <<"-">>] :
        names \in SUBSET DOMAIN CallerHeaders}

\* model_action: a model and an action, a model alone, an action alone.
ModelActions ==
    {<<"gemini-2.5-flash", ":", "generateContent">>, <<"gemini-2.5-flash">>,
     <<":", "generateContent">>}

\* What the upstream does with the request: answers (JSON or not), or the
\* connection fails.
GeminiAnswers == {[kind |-> "json", status |-> 200], [kind |-> "text", status |-> 404],
                  [kind |-> "request_error", status |-> 0]}

NoRequest == [url |-> <<>>, headers |-> <<>>, body |-> "none"]

NoAnswer == [status |-> 0, detail |-> "none"]

NoException == [cls |-> "none", status_code |-> 0]

HTTPException(status_code) == [cls |-> "HTTPException", status_code |-> status_code]

InitGemini ==
    /\ NotServing
    /\ handler = NoHandler /\ now = 0 /\ callers = <<>> /\ running = 0 /\ authLog = NoAuthLog
    /\ call \in {[fn |-> "gemini_compatible_endpoint", translator |-> t, method |-> m,
                  request_body |-> b, model_action |-> a, headers |-> h, token |-> k,
                  pc |-> "start", vertex_url |-> <<>>, e |-> NoException,
                  sent |-> NoRequest, answer |-> NoAnswer] :
                    t \in {"none", "ready"}, m \in {"GET", "POST"},
                    b \in {"empty", "json", "invalid"}, a \in ModelActions,
                    h \in HeaderSets, k \in {"service-token", "raises"}}

\* "if not translator: raise HTTPException(503)", inside the try.
GeminiCheckTranslator ==
    /\ call.fn = "gemini_compatible_endpoint"
    /\ call.pc = "start"
    /\ call' = IF call.translator = "none"
               THEN [call EXCEPT !.pc = "except", !.e = HTTPException(503)]
               ELSE [call EXCEPT !.pc = "body"]
    /\ UNCHANGED <<progVars, authVars>>

\* The body of a POST, PUT or PATCH is parsed; a failure is raised, inside
\* the outer try, as HTTPException(400).
GeminiParseBody ==
    /\ call.fn = "gemini_compatible_endpoint"
    /\ call.pc = "body"
    /\ call' = IF call.method \in {"POST", "PUT", "PATCH"} /\ call.request_body = "invalid"
               THEN [call EXCEPT !.pc = "except", !.e = HTTPException(400)]
               ELSE [call EXCEPT !.pc = "translate"]
    /\ UNCHANGED <<progVars, authVars>>

\* translator.get_vertex_endpoint("/v1beta/models/" + model_action)
GeminiTranslate ==
    /\ call.fn = "gemini_compatible_endpoint"
    /\ call.pc = "translate"
    /\ LET r == get_vertex_endpoint(EndpointTranslator("proj", "global"),
                                    <<V1Beta>> \o call.model_action)
       IN  call' = IF r.exc # "none"
                   THEN [call EXCEPT !.pc = "except",
                                     !.e = [cls |-> r.exc, status_code |-> 0]]
                   ELSE [call EXCEPT !.pc = "token", !.vertex_url = r.value]
    /\ UNCHANGED <<progVars, authVars>>

\* auth_handler.get_access_token()
GeminiGetToken ==
    /\ call.fn = "gemini_compatible_endpoint"
    /\ call.pc = "token"
    /\ call' = IF call.token = "raises"
               THEN [call EXCEPT !.pc = "except",
                                 !.e = [cls |-> "Exception", status_code |-> 0]]
               ELSE [call EXCEPT !.pc = "send"]
    /\ UNCHANGED <<progVars, authVars>>

headers_to_remove == {<<"host">>, <<"content-length">>, <<"authorization">>, <<XGoog, "api-key">>}

\* Mutant: every header of the caller is passed on, after the two of the
\* service.
vertex_headers_All(headers, access_token) ==
    [n \in {<<"Content-Type">>, <<"Authorization">>} \cup DOMAIN headers |->
        IF n \in DOMAIN headers THEN headers[n]
        ELSE IF n = <<"Authorization">> THEN <<"Bearer ", access_token>>
        ELSE <<"application/json">>]

\* vertex_headers: Content-Type and Authorization of the service, then the
\* caller's headers that are not in headers_to_remove and do not start with
\* "x-goog-".
vertex_headers(headers, access_token) ==
    LET kept == {n \in DOMAIN headers : n \notin headers_to_remove /\ Head(n) # XGoog}
    IN  [n \in {<<"Content-Type">>, <<"Authorization">>} \cup kept |->
            IF n \in kept THEN headers[n]
            ELSE IF n = <<"Authorization">> THEN <<"Bearer ", access_token>>
            ELSE <<"application/json">>]

\* client.request(...): the request goes out and the upstream answers, or
\* the connection fails.
GeminiSend ==
    /\ call.fn = "gemini_compatible_endpoint"
    /\ call.pc = "send"
    /\ \E a \in GeminiAnswers :
          LET sent == [url |-> call.vertex_url,
                       headers |-> vertex_headers(call.headers, call.token),
                       body |-> IF call.method = "POST" THEN call.request_body ELSE "none"]
          IN  call' = IF a.kind = "request_error"
                      THEN [call EXCEPT !.sent = sent, !.pc = "except",
                                        !.e = [cls |-> "RequestError", status_code |-> 0]]
                      ELSE [call EXCEPT !.sent = sent, !.pc = "done",
                                        !.answer = [status |-> a.status, detail |-> a.kind]]
    /\ UNCHANGED <<progVars, authVars>>

\* The except clauses in their order: httpx.RequestError, ValueError,
\* Exception.  An HTTPException raised inside the try is an Exception.
GeminiExcept ==
    /\ call.fn = "gemini_compatible_endpoint"
    /\ call.pc = "except"
    /\ call' = [call EXCEPT
                  !.pc = "done",
                  !.answer = IF call.e.cls = "RequestError"
                             THEN [status |-> 503, detail |-> "Service unavailable"]
                             ELSE IF call.e.cls = "ValueError"
                             THEN [status |-> 400, detail |-> "Invalid endpoint format"]
                             ELSE [status |-> 500, detail |-> "Internal server error"]]
    /\ UNCHANGED <<progVars, authVars>>

NextGemini ==
    \/ GeminiCheckTranslator
    \/ GeminiParseBody
    \/ GeminiTranslate
    \/ GeminiGetToken
    \/ GeminiSend
    \/ GeminiExcept

SpecGemini == InitGemini /\ [][NextGemini]_vars

GeminiAnswered == call.fn = "gemini_compatible_endpoint" /\ call.pc = "done"

\* C35: a request whose body is not JSON is answered with 400, a request
\* that finds no translator with 503, and a path that is not model:action
\* with 400; none of them is sent to the upstream.
C35_Claim ==
    GeminiAnswered =>
        /\ call.translator = "none" =>
              (call.answer.status = 503 /\ call.sent = NoRequest)
        /\ (/\ call.translator # "none"
            /\ call.method = "POST"
            /\ call.request_body = "invalid") =>
              (call.answer.status = 400 /\ call.sent = NoRequest)
        /\ (/\ call.translator # "none"
            /\ ~(call.method = "POST" /\ call.request_body = "invalid")
            /\ Len(call.model_action) # 3) =>
              (call.answer.status = 400 /\ call.sent = NoRequest)

\* The name of a header in lower case.
HeaderLower(n) == IF n = <<"Authorization">> THEN <<"authorization">>
                  ELSE IF n = <<"Content-Type">> THEN <<"content-type">> ELSE n

\* C40: the request sent to the upstream carries no x-goog- header, and
\* every Authorization header it carries is "Bearer" with the service's
\* token: what the caller sent as Authorization is not in it.
C40_ServiceCredential ==
    (call.fn = "gemini_compatible_endpoint" /\ call.sent # NoRequest) =>
        /\ <<"Authorization">> \in DOMAIN call.sent.headers
        /\ \A n \in DOMAIN call.sent.headers :
              /\ Head(HeaderLower(n)) # XGoog
              /\ HeaderLower(n) = <<"authorization">> =>
                    call.sent.headers[n] = <<"Bearer ", "service-token">>
              /\ call.sent.headers[n] \notin
                    {CallerHeaders[<<"authorization">>], CallerHeaders[<<XGoog, "api-key">>],
                     CallerHeaders[<<XGoog, "user-project">>]}

\* A caller that sent Authorization, two x-goog- headers and a request id
\* had its request sent on with the request id.
C40_Witness ==
    /\ call.fn = "gemini_compatible_endpoint"
    /\ call.sent # NoRequest
    /\ DOMAIN CallerHeaders \subseteq DOMAIN call.headers
    /\ <<"x-request-id">> \in DOMAIN call.sent.headers

====
